---- MODULE Spec2Model ----
(***************************************************************************)
(* EnvKit: resolution, validation and write-back of environment variables. *)
(*                                                                         *)
(* A text (file content, key, value, line) is a sequence of one-character  *)
(* strings.  A JavaScript object used as a string->string mapping is an    *)
(* ordered mapping: a sequence of entries [k |-> key, v |-> value] with    *)
(* pairwise distinct keys, in insertion order (the order of                *)
(* Object.entries for keys that are not array indices; OwnEntries puts the *)
(* index keys of a body that is a string or an array first).               *)
(***************************************************************************)
EXTENDS Integers, Sequences, FiniteSets, TLC

----------------------------------------------------------------------------
(* Texts *)

NL == "\n"
EQ == "="
HASH == "#"
DQ == "\""
SQ == "'"
SP == " "

\* String.prototype.trim removes these (those of the model's alphabet)
IsWs(c) == c \in {SP, NL, "\t", "\r"}

\* ["'] of the regular expressions
IsQuote(c) == c \in {DQ, SQ}

RECURSIVE TrimStart(_)
TrimStart(s) ==
  IF s = <<>> THEN s
  ELSE IF IsWs(Head(s)) THEN TrimStart(Tail(s)) ELSE s

RECURSIVE TrimEnd(_)
TrimEnd(s) ==
  IF s = <<>> THEN s
  ELSE IF IsWs(s[Len(s)]) THEN TrimEnd(SubSeq(s, 1, Len(s) - 1)) ELSE s

\* String.prototype.trim
Trim(s) == TrimEnd(TrimStart(s))

\* String.prototype.indexOf(c), 1-based; 0 when c does not occur
IndexOf(s, c) ==
  IF \E i \in 1..Len(s) : s[i] = c
  THEN CHOOSE i \in 1..Len(s) : s[i] = c /\ \A j \in 1..(i - 1) : s[j] # c
  ELSE 0

\* String.prototype.split('\n')
RECURSIVE SplitLines(_)
SplitLines(s) ==
  LET i == IndexOf(s, NL) IN
  IF i = 0 THEN <<s>>
  ELSE <<SubSeq(s, 1, i - 1)>> \o SplitLines(SubSeq(s, i + 1, Len(s)))

\* Array.prototype.join('\n')
RECURSIVE JoinLines(_)
JoinLines(ls) ==
  IF ls = <<>> THEN <<>>
  ELSE IF Len(ls) = 1 THEN ls[1]
  ELSE ls[1] \o <<NL>> \o JoinLines(Tail(ls))

----------------------------------------------------------------------------
(* Ordered mappings (JavaScript objects) *)

EmptyMap == <<>>

Keys(m) == {m[i].k : i \in 1..Len(m)}

Has(m, key) == key \in Keys(m)

\* m[key], for a key of m
Get(m, key) == LET i == CHOOSE i \in 1..Len(m) : m[i].k = key IN m[i].v

\* m with the entry for key set to value: an existing key keeps its place,
\* a new key is appended
PutEntry(m, entry) ==
  IF Has(m, entry.k)
  THEN [i \in 1..Len(m) |-> IF m[i].k = entry.k THEN entry ELSE m[i]]
  ELSE Append(m, entry)

\* an assignment that adds an entry even when the key is there
PutAgain(m, key, value) == Append(m, [k |-> key, v |-> value])

\* m[key] = value.  (The singleton sets make TLC evaluate the arguments
\* once, here and below: it re-evaluates an operator's argument at each use.)
Put(m, key, value) ==
  CHOOSE r \in {PutEntry(m1, e1) : m1 \in {m}, e1 \in {[k |-> key, v |-> value]}} :
    TRUE

RECURSIVE SpreadInto(_, _)
SpreadInto(a, b) ==
  IF b = <<>> THEN a
  ELSE SpreadInto(PutEntry(a, b[1]), Tail(b))

\* { ...a, ...b }
Spread(a, b) ==
  CHOOSE r \in {SpreadInto(a1, b1) : a1 \in {a}, b1 \in {b}} : TRUE

\* the mapping as a function, where the order of the entries is irrelevant
AsFun(m) == [key \in Keys(m) |-> Get(m, key)]

----------------------------------------------------------------------------
(* src/lib/envkit/fileUtils.ts: parseEnvFile, writeEnvFile's serialisation *)

\* a stripping that also removes a quote that is not closed
StripLeadingQuote(value) ==
  IF value # <<>> /\ IsQuote(value[1]) THEN Tail(value) ELSE value

\* value.replace(<quote, anything, quote>, '$1'): a value of two or more characters
\* that begins with a quote and ends with a quote (not necessarily the
\* same one) loses its first and last character
StripQuotes(value) ==
  IF Len(value) >= 2 /\ IsQuote(value[1]) /\ IsQuote(value[Len(value)])
  THEN SubSeq(value, 2, Len(value) - 1)
  ELSE value

\* a loop body that splits the line at its last '='
ParseLineAtLastEq(envVars, line) ==
  LET trimmedLine == Trim(line)
      n == Len(trimmedLine)
      i == n + 1 - IndexOf([j \in 1..n |-> trimmedLine[n + 1 - j]], EQ)
  IN  IF trimmedLine = <<>> \/ trimmedLine[1] = HASH THEN envVars
      ELSE IF i >= 2 /\ i <= Len(trimmedLine)
        THEN Put(envVars,
                 Trim(SubSeq(trimmedLine, 1, i - 1)),
                 StripQuotes(Trim(SubSeq(trimmedLine, i + 1, Len(trimmedLine)))))
        ELSE envVars

\* One iteration of the for loop of parseEnvFile: envVars after `line`.
\* trimmedLine.match(<one or more non-'=', '=', anything>) succeeds iff the first '=' of the
\* trimmed line has at least one character before it.
ParseLine(envVars, line) ==
  LET trimmedLine == Trim(line)
      i == IndexOf(trimmedLine, EQ)
  IN  IF trimmedLine = <<>> \/ trimmedLine[1] = HASH THEN envVars
      ELSE IF i >= 2
        THEN Put(envVars,
                 Trim(SubSeq(trimmedLine, 1, i - 1)),
                 StripQuotes(Trim(SubSeq(trimmedLine, i + 1, Len(trimmedLine)))))
        ELSE envVars

RECURSIVE ParseLines(_, _)
ParseLines(envVars, lines) ==
  IF lines = <<>> THEN envVars
  ELSE ParseLines(ParseLine(envVars, lines[1]), Tail(lines))

\* parseEnvFile(content)
ParseEnvFile(content) ==
  CHOOSE r \in {ParseLines(EmptyMap, lines) : lines \in {SplitLines(content)}} : TRUE

\* Object.entries(env).map(([key, value]) => `${key}=${value}`).join('\n'):
\* the serialisation of writeEnvFile, stringifyEnvFile and writeEnvVars
StringifyEnvFile(env) ==
  JoinLines([i \in 1..Len(env) |-> env[i].k \o <<EQ>> \o env[i].v])

----------------------------------------------------------------------------
(* packages/core/src/server/index.ts: parseEnvFile *)

\* value.substring(1, value.length - 1) when the value starts and ends with
\* the same quote; for a one-character value substring(1, 0) swaps its
\* arguments and returns the value itself
CoreStripQuotes(value) ==
  IF value # <<>> /\ IsQuote(value[1]) /\ value[Len(value)] = value[1]
  THEN IF Len(value) = 1 THEN value ELSE SubSeq(value, 2, Len(value) - 1)
  ELSE value

\* The body of the forEach of parseEnvFile: line.indexOf('=') is taken on
\* the untrimmed line and must be > 0 (0-based)
CoreParseLine(result, line) ==
  LET trimmedLine == Trim(line)
      equalSignIndex == IndexOf(line, EQ)
  IN  IF trimmedLine = <<>> \/ trimmedLine[1] = HASH THEN result
      ELSE IF equalSignIndex >= 2
        THEN Put(result,
                 Trim(SubSeq(line, 1, equalSignIndex - 1)),
                 CoreStripQuotes(Trim(SubSeq(line, equalSignIndex + 1, Len(line)))))
        ELSE result

RECURSIVE CoreParseLines(_, _)
CoreParseLines(result, lines) ==
  IF lines = <<>> THEN result
  ELSE CoreParseLines(CoreParseLine(result, lines[1]), Tail(lines))

CoreParseEnvFile(content) ==
  CHOOSE r \in {CoreParseLines(EmptyMap, lines) : lines \in {SplitLines(content)}} :
    TRUE

----------------------------------------------------------------------------
(* The parseEnvFile inside DefaultFallbackUI (the component's copy) *)

\* value.substring(1, value.length - 1) when value starts and ends with the
\* same quote; substring(1, 0) of a one-character value is the value
FallbackStripQuotes(value) ==
  IF value # <<>>
     /\ \/ value[1] = DQ /\ value[Len(value)] = DQ
        \/ value[1] = SQ /\ value[Len(value)] = SQ
  THEN IF Len(value) = 1 THEN value ELSE SubSeq(value, 2, Len(value) - 1)
  ELSE value

\* the body of the forEach
FallbackParseLine(result, line) ==
  LET equalSignIndex == IndexOf(line, EQ)
  IN  IF (Trim(line) # <<>> /\ Trim(line)[1] = HASH) \/ Trim(line) = <<>>
      THEN result
      ELSE IF equalSignIndex - 1 > 0
        THEN Put(result,
                 Trim(SubSeq(line, 1, equalSignIndex - 1)),
                 FallbackStripQuotes(Trim(SubSeq(line, equalSignIndex + 1,
                                                 Len(line)))))
        ELSE result

RECURSIVE FallbackParseLines(_, _)
FallbackParseLines(result, lines) ==
  IF lines = <<>> THEN result
  ELSE FallbackParseLines(FallbackParseLine(result, lines[1]), Tail(lines))

FallbackParseEnvFile(content) ==
  CHOOSE r \in {FallbackParseLines(EmptyMap, lines) :
                  lines \in {SplitLines(content)}} : TRUE

----------------------------------------------------------------------------
(* dotenv 16 (packages/nextjs/package.json), parse(src), as called by      *)
(* loadEnvVars and writeEnvVars.  parse repeats LINE.exec(src), where the  *)
(* regular expression LINE (flags m and g) is, in this order:              *)
(*   a line start, whitespace, an optional "export" and whitespace,        *)
(*   the key: one or more of [\w.-],                                       *)
(*   whitespace and '=' and (lazily) whitespace, or ':' and whitespace,    *)
(*   optionally the value: whitespace and a single-quoted, double-quoted   *)
(*     or back-quoted text, or else one or more characters other than      *)
(*     '#', CR and LF,                                                     *)
(*   whitespace, an optional comment from '#' to the end of the line,      *)
(*   an end of line.                                                       *)
(* Whitespace is \s and includes line ends.  The operators below are that  *)
(* match for texts without backslash, backquote, colon, carriage return    *)
(* and the word "export" (none occurs in the texts of the model).          *)
(* Positions are 1-based; Len(src)+1 is the end of the text.               *)

\* [\w.-] over the alphabet
IsKeyChar(c) ==
  c \in {"a", "b", "c", "d", "e", "f", "g", "h", "i", "j", "k", "l", "m",
         "n", "o", "p", "q", "r", "s", "t", "u", "v", "w", "x", "y", "z",
         "A", "B", "C", "D", "E", "F", "G", "H", "I", "J", "K", "L", "M",
         "N", "O", "P", "Q", "R", "S", "T", "U", "V", "W", "X", "Y", "Z",
         "0", "1", "2", "3", "4", "5", "6", "7", "8", "9", "_", ".", "-"}

\* the first position >= p that holds no whitespace
RECURSIVE SkipWs(_, _)
SkipWs(src, p) ==
  IF p <= Len(src) /\ IsWs(src[p]) THEN SkipWs(src, p + 1) ELSE p

\* the first position >= p that holds no key character
RECURSIVE KeyEnd(_, _)
KeyEnd(src, p) ==
  IF p <= Len(src) /\ IsKeyChar(src[p]) THEN KeyEnd(src, p + 1) ELSE p

\* the first position >= p that holds one of `stops`, or the end
RECURSIVE Until(_, _, _)
Until(src, p, stops) ==
  IF p <= Len(src) /\ src[p] \notin stops THEN Until(src, p + 1, stops) ELSE p

\* The tail of LINE (whitespace, optional comment, end of line) matched at
\* t: the position where the match ends, 0 if it fails.  The greedy
\* whitespace gives back characters until a '#' or an end of line follows.
LineTailEnd(src, t) ==
  LET u == SkipWs(src, t) IN
  IF u > Len(src) THEN u
  ELSE IF src[u] = HASH THEN Until(src, u, {NL})
  ELSE IF \E v \in t..(u - 1) : src[v] = NL
    THEN CHOOSE v \in t..(u - 1) :
           src[v] = NL /\ \A w \in (v + 1)..(u - 1) : src[w] # NL
    ELSE 0

NoMatch == [ok |-> FALSE, key |-> <<>>, raw |-> <<>>, end |-> 0]

\* the quoted alternative of the value group at s, for the quote q, then
\* the tail of LINE
QuotedValue(src, s, q) ==
  LET w == SkipWs(src, s)
      c == IF w <= Len(src) THEN Until(src, w + 1, {q}) ELSE w
  IN  IF w <= Len(src) /\ src[w] = q /\ c <= Len(src)
           /\ LineTailEnd(src, c + 1) # 0
      THEN [ok |-> TRUE, key |-> <<>>, raw |-> SubSeq(src, s, c),
            end |-> LineTailEnd(src, c + 1)]
      ELSE NoMatch

\* LINE matched at the line start p
LineMatch(src, p) ==
  LET q == SkipWs(src, p)
      e == KeyEnd(src, q)
      r == SkipWs(src, e)
      s == r + 1
      key == SubSeq(src, q, e - 1)
      t == Until(src, s, {HASH, NL})
  IN  IF e = q \/ r > Len(src) THEN NoMatch
      ELSE IF src[r] # EQ THEN NoMatch
      ELSE IF QuotedValue(src, s, SQ).ok
        THEN [QuotedValue(src, s, SQ) EXCEPT !.key = key]
      ELSE IF QuotedValue(src, s, DQ).ok
        THEN [QuotedValue(src, s, DQ) EXCEPT !.key = key]
      ELSE IF t > s
        THEN [ok |-> TRUE, key |-> key, raw |-> SubSeq(src, s, t - 1),
              end |-> LineTailEnd(src, t)]
      ELSE [ok |-> TRUE, key |-> key, raw |-> <<>>, end |-> LineTailEnd(src, s)]

\* value.replace(...): a value that starts and ends with the same quote
\* loses both
DotenvUnquote(value) ==
  IF Len(value) >= 2 /\ IsQuote(value[1]) /\ value[Len(value)] = value[1]
  THEN SubSeq(value, 2, Len(value) - 1)
  ELSE value

\* LINE.exec(src) with LINE.lastIndex = from: the match at the first line
\* start >= from where LINE matches
RECURSIVE LineExec(_, _)
LineExec(src, from) ==
  IF from > Len(src) THEN NoMatch
  ELSE IF (from = 1 \/ src[from - 1] = NL) /\ LineMatch(src, from).ok
       THEN LineMatch(src, from)
       ELSE LineExec(src, from + 1)

\* the while loop of parse, with LINE.lastIndex = from
RECURSIVE DotenvFrom(_, _, _)
DotenvFrom(src, from, obj) ==
  CHOOSE r \in
    {IF m.ok
       THEN DotenvFrom(src, m.end, PutEntry(o, [k |-> m.key,
                                                v |-> DotenvUnquote(Trim(m.raw))]))
       ELSE o : m \in {LineExec(src, from)}, o \in {obj}} : TRUE

\* dotenv.parse(src)
DotenvParse(src) == DotenvFrom(src, 1, EmptyMap)

----------------------------------------------------------------------------
(* State *)

VARIABLES
  nodeEnv,    \* process.env.NODE_ENV; "" when it is not set
  procEnv,    \* the other entries of process.env, an ordered mapping
  files,      \* the directory process.cwd(): file name -> [exists, content]
  nUpdates,   \* number of writes performed so far (bounds the exploration)
  last,       \* the last operation: its inputs, what it did and its result
  writers,    \* update calls of independent writers, each between its steps
  validation, \* a validateEnv call between the checks of its variables
  now,        \* the browser: Date.now(), in ms
  api,        \* the browser: the EnvKitApi instance: statusCache, lastCheckTime
  calls,      \* the browser: the checkStatus calls, each between its awaits
  update,     \* the browser: the updateVariables call
  provider,   \* the browser: state, ref and route of the EnvKitProvider
  sent        \* the browser: the times the status requests were sent at

\* the browser's part of the state
clientVars == <<now, api, calls, update, provider, sent>>

vars ==
  <<nodeEnv, procEnv, files, nUpdates, last, writers, validation, clientVars>>

\* the return value `undefined`, and a defined text
Undefined == [defined |-> FALSE, value |-> <<>>]
Def(text) == [defined |-> TRUE, value |-> text]

\* obj[key]
Lookup(obj, key) == IF Has(obj, key) THEN Def(Get(obj, key)) ELSE Undefined

\* !value, for a value that is a string or undefined
Falsy(val) == ~val.defined \/ val.value = <<>>

NoFile == [exists |-> FALSE, content |-> <<>>]
FileOf(text) == [exists |-> TRUE, content |-> text]

\* fs.existsSync(path)
ExistsSync(fs, path) == fs[path].exists

\* a write that lands in every file of the directory
WriteFileSyncEverywhere(fs, path, content) ==
  [p \in DOMAIN fs |-> FileOf(content)]

\* fs.writeFileSync(path, content)
WriteFileSync(fs, path, content) == [fs EXCEPT ![path] = FileOf(content)]

\* process.env.NODE_ENV || 'development'
NodeEnvOrDevelopment(env) == IF env = "" THEN "development" ELSE env

----------------------------------------------------------------------------
(* src/lib/envkit/fileUtils.ts *)

\* Array.prototype.reverse
Reverse(seq) == [i \in 1..Len(seq) |-> seq[Len(seq) + 1 - i]]

\* envFiles of getEnvFilePaths before the filter: ['.env'] and, with
\* includeEnvExtensions, unshift('.env.<m>', '.env.<m>.local', '.env.local')
EnvFileCandidates(env, includeEnvExtensions) ==
  LET m == NodeEnvOrDevelopment(env) IN
  IF includeEnvExtensions
  THEN <<".env." \o m, ".env." \o m \o ".local", ".env.local", ".env">>
  ELSE <<".env">>

\* getEnvFilePaths(process.cwd(), { includeEnvExtensions })
GetEnvFilePaths(fs, env, includeEnvExtensions) ==
  LET Exists(path) == ExistsSync(fs, path)
  IN  SelectSeq(EnvFileCandidates(env, includeEnvExtensions), Exists)

\* the forEach of readEnvFiles over paths; a read that throws (a path in
\* failing) is caught and the file skipped
RECURSIVE ReadEach(_, _, _, _)
ReadEach(fs, paths, failing, envVars) ==
  IF paths = <<>> THEN envVars
  ELSE ReadEach(fs, Tail(paths), failing,
                IF paths[1] \in failing THEN envVars
                ELSE Spread(envVars, ParseEnvFile(fs[paths[1]].content)))

\* a resolution that gives up when a read throws
ReadEnvFilesOrNothing(fs, env, includeEnvExtensions, failing) ==
  IF failing # {} THEN EmptyMap
  ELSE ReadEach(fs, Reverse(GetEnvFilePaths(fs, env, includeEnvExtensions)),
                failing, EmptyMap)

\* readEnvFiles(options)
ReadEnvFiles(fs, env, includeEnvExtensions, failing) ==
  ReadEach(fs, Reverse(GetEnvFilePaths(fs, env, includeEnvExtensions)),
           failing, EmptyMap)

\* readEnvFile({ envFilePath }): {} when the file is absent or the read throws
ReadEnvFile(fs, envFilePath, readFails) ==
  IF ~ExistsSync(fs, envFilePath) THEN EmptyMap
  ELSE IF readFails THEN EmptyMap
  ELSE ParseEnvFile(fs[envFilePath].content)

\* a resolution that lets the files win over the process environment
GetEnvValueFilesFirst(fs, env, penv, key, failing) ==
  IF Has(ReadEnvFiles(fs, env, TRUE, failing), key)
  THEN Def(Get(ReadEnvFiles(fs, env, TRUE, failing), key))
  ELSE Lookup(penv, key)

\* getEnvValue(key)
GetEnvValue(fs, env, penv, key, failing) ==
  IF Has(penv, key) THEN Def(Get(penv, key))
  ELSE Lookup(ReadEnvFiles(fs, env, TRUE, failing), key)

\* writeEnvFile(envVars, { envFilePath }): the returned boolean and the
\* files afterwards
WriteEnvFile(fs, envVars, envFilePath, writeFails) ==
  IF writeFails THEN [ok |-> FALSE, fs |-> fs, wrote |-> FALSE]
  ELSE [ok |-> TRUE,
        fs |-> WriteFileSync(fs, envFilePath, StringifyEnvFile(envVars)),
        wrote |-> TRUE]

\* updateEnvFile(newVars, { envFilePath })
UpdateEnvFile(fs, newVars, envFilePath, readFails, writeFails) ==
  LET existingVars == IF ExistsSync(fs, envFilePath)
                      THEN ReadEnvFile(fs, envFilePath, readFails)
                      ELSE EmptyMap
      updatedVars == Spread(existingVars, newVars)
  IN  WriteEnvFile(fs, updatedVars, envFilePath, writeFails)

----------------------------------------------------------------------------
(* src/lib/envkit/envValidator.ts *)

\* the loop of validateEnv: the specs pushed to missingVars
RECURSIVE MissingVars(_, _, _, _, _)
MissingVars(fs, env, penv, envVars, failing) ==
  IF envVars = <<>> THEN <<>>
  ELSE LET envVar == envVars[1]
           value == GetEnvValue(fs, env, penv, envVar.name, failing)
           rest == MissingVars(fs, env, penv, Tail(envVars), failing)
       IN  IF envVar.required /\ Falsy(value) /\ Falsy(envVar.defaultValue)
           THEN <<envVar>> \o rest
           ELSE rest

\* a validation that does not look at missingVars for isValid
ValidateEnvAlwaysValid(fs, env, penv, envVars, failing) ==
  [isValid |-> TRUE,
   missingVars |-> MissingVars(fs, env, penv, envVars, failing),
   allVars |-> envVars]

\* validateEnv(envVars)
ValidateEnv(fs, env, penv, envVars, failing) ==
  LET missingVars == MissingVars(fs, env, penv, envVars, failing)
  IN  [isValid |-> missingVars = <<>>,
       missingVars |-> missingVars,
       allVars |-> envVars]

\* isDevEnvironment()
IsDevEnvironment(env) == env = "development"

----------------------------------------------------------------------------
(* packages/nextjs/src/server.ts *)

\* the default of options.envFiles
DefaultEnvFiles ==
  <<".env.local", ".env.development.local", ".env.development", ".env">>

\* the for loop of loadEnvVars; an iteration that throws (a file in failing)
\* is caught and the file skipped
RECURSIVE LoadEach(_, _, _, _)
LoadEach(fs, envFiles, failing, merged) ==
  IF envFiles = <<>> THEN merged
  ELSE LoadEach(fs, Tail(envFiles), failing,
                IF ExistsSync(fs, envFiles[1]) /\ envFiles[1] \notin failing
                THEN Spread(DotenvParse(fs[envFiles[1]].content), merged)
                ELSE merged)

\* loadEnvVars({ envFiles }): merged starts as { ...process.env }
LoadEnvVars(fs, penv, envFiles, failing) == LoadEach(fs, envFiles, failing, penv)

\* the files loadEnvVars reads with fs.readFileSync
LoadReads(fs, envFiles) ==
  {envFiles[i] : i \in {j \in 1..Len(envFiles) : ExistsSync(fs, envFiles[j])}}

\* a writeEnvVars that writes the given variables only
WriteEnvVarsOverwrite(fs, variables, targetEnvFile, readFails, writeFails) ==
  [result |-> [success |-> TRUE, path |-> targetEnvFile, error |-> FALSE],
   fs |-> WriteFileSync(fs, targetEnvFile, StringifyEnvFile(variables)),
   reads |-> {}, wrote |-> TRUE]

\* an array index as a property name; the model has indices below ten
IsIndexKey(key) ==
  Len(key) = 1 /\ key[1] \in {"0", "1", "2", "3", "4", "5", "6", "7", "8", "9"}

\* Object.entries(obj): the index keys first, ascending, then the other
\* keys in the order they were added
OwnEntries(obj) ==
  LET digits == <<"0", "1", "2", "3", "4", "5", "6", "7", "8", "9">>
      At(d) == SelectSeq(obj, LAMBDA e : e.k = <<d>>)
      indexed[i \in 0..10] ==
        IF i = 0 THEN <<>> ELSE indexed[i - 1] \o At(digits[i])
  IN  indexed[10] \o SelectSeq(obj, LAMBDA e : ~IsIndexKey(e.k))

\* writeEnvVars(variables, { targetEnvFile }): the WriteEnvResult, the files
\* afterwards, and what was done.  A throw of readFileSync or of
\* writeFileSync is caught by the function's try.
WriteEnvVars(fs, variables, targetEnvFile, readFails, writeFails) ==
  LET existed == ExistsSync(fs, targetEnvFile)
      envContent ==
        IF existed
        THEN StringifyEnvFile(OwnEntries(Spread(DotenvParse(fs[targetEnvFile].content),
                                                variables)))
        ELSE StringifyEnvFile(OwnEntries(variables))
      failure == [success |-> FALSE, path |-> "", error |-> TRUE]
  IN  IF existed /\ readFails
      THEN [result |-> failure, fs |-> fs, reads |-> {targetEnvFile}, wrote |-> FALSE]
      ELSE IF writeFails
      THEN [result |-> failure, fs |-> fs,
            reads |-> IF existed THEN {targetEnvFile} ELSE {}, wrote |-> FALSE]
      ELSE [result |-> [success |-> TRUE, path |-> targetEnvFile, error |-> FALSE],
            fs |-> WriteFileSync(fs, targetEnvFile, envContent),
            reads |-> IF existed THEN {targetEnvFile} ELSE {},
            wrote |-> TRUE]

----------------------------------------------------------------------------
(* packages/nextjs/src/api/createEnvApiHandler.ts *)

NotAvailable == "Not available in production"
InvalidBody == "Invalid request body. Expected JSON object."
OnUpdateFailed == "onUpdate rejected"

\* a response; status 0 stands for no response: the handler threw
Response(status, error, success, missingVars, path, environment) ==
  [status |-> status, error |-> error, success |-> success,
   missingVars |-> missingVars, path |-> path, environment |-> environment]

ErrorResponse(status, error) == Response(status, error, FALSE, <<>>, "", "")

\* what a handler did besides answering
NoEffects == [bodyRead |-> FALSE, reads |-> {}, wrote |-> FALSE, onUpdate |-> <<>>]

\* a gate that is always open
GatedNever(env, options) == FALSE

\* process.env.NODE_ENV === 'production' && !options.allowInProduction
Gated(env, options) == env = "production" /\ ~options.allowInProduction

\* the key "_targetEnv"
TargetEnvKey == <<"_", "t", "a", "r", "g", "e", "t", "E", "n", "v">>

\* requiredVars of the status handler after the cookie and the two
\* fallbacks.  kind is "array", or for a cookie whose JSON is no array:
\* "null", "emptyString" (its length is 0) or "other" (its length is not 0).
RequiredVars(env, options, cookie) ==
  LET currentEnv == NodeEnvOrDevelopment(env)
      fromCookie ==
        IF cookie.kind \in {"none", "malformed"}
        THEN [kind |-> "array", vars |-> <<>>]
        ELSE [kind |-> cookie.kind, vars |-> cookie.vars]
      Empty(r) == (r.kind = "array" /\ r.vars = <<>>) \/ r.kind = "emptyString"
      fromEnvironment ==
        IF Empty(fromCookie) /\ currentEnv \in DOMAIN options.environments
        THEN [kind |-> "array", vars |-> options.environments[currentEnv].requiredVars]
        ELSE fromCookie
  IN  IF Empty(fromEnvironment) /\ options.requiredVars.defined
      THEN [kind |-> "array", vars |-> options.requiredVars.value]
      ELSE fromEnvironment

\* requiredVars.filter(key => !env[key])
RECURSIVE FilterMissing(_, _)
FilterMissing(requiredVars, env) ==
  IF requiredVars = <<>> THEN <<>>
  ELSE IF Falsy(Lookup(env, requiredVars[1]))
       THEN <<requiredVars[1]>> \o FilterMissing(Tail(requiredVars), env)
       ELSE FilterMissing(Tail(requiredVars), env)

\* the handler of createStatusHandler on one request
StatusHandler(fs, env, penv, options, cookie, failing) ==
  LET currentEnv == NodeEnvOrDevelopment(env)
      requiredVars == RequiredVars(env, options, cookie)
      loaded == LoadEnvVars(fs, penv, DefaultEnvFiles, failing)
      missingVars == FilterMissing(requiredVars.vars, loaded)
      read == [NoEffects EXCEPT !.reads = LoadReads(fs, DefaultEnvFiles)]
  IN  IF Gated(env, options)
      THEN [response |-> ErrorResponse(404, NotAvailable), fs |-> fs,
            effects |-> NoEffects]
      ELSE IF cookie.kind = "null"
      \* requiredVars.length of null throws
      THEN [response |-> ErrorResponse(0, ""), fs |-> fs, effects |-> NoEffects]
      ELSE IF requiredVars.kind # "array"
      \* requiredVars.filter is not a function
      THEN [response |-> ErrorResponse(0, ""), fs |-> fs, effects |-> read]
      ELSE [response |-> Response(200, "", missingVars = <<>>, missingVars, "",
                                  currentEnv),
            fs |-> fs, effects |-> read]

\* the body handed to writeEnvVars: requestData without _targetEnv when that
\* is truthy, requestData itself otherwise (a falsy _targetEnv stays in it;
\* text is what the template literal of writeEnvVars makes of its value)
BodyOf(requestData) ==
  IF requestData.targetEnv.defined /\ requestData.targetEnv.value = ""
  THEN Spread(<<[k |-> TargetEnvKey, v |-> requestData.targetEnv.text]>>,
              requestData.vars)
  ELSE requestData.vars

\* the handler of createUpdateHandler on one request
UpdateHandler(fs, env, options, requestData, readFails, writeFails) ==
  LET body == BodyOf(requestData)
      targetEnv == IF requestData.targetEnv.defined
                   THEN requestData.targetEnv.value ELSE ""
      currentEnv == IF targetEnv # "" THEN targetEnv ELSE NodeEnvOrDevelopment(env)
      targetEnvFile ==
        IF currentEnv \in DOMAIN options.environments
           /\ options.environments[currentEnv].targetEnvFile # ""
        THEN options.environments[currentEnv].targetEnvFile
        ELSE ".env.local"
      \* what follows `await writeEnvVars(...)`, which returned raw
      After(raw) ==
        LET done == [bodyRead |-> TRUE, reads |-> raw.reads, wrote |-> raw.wrote,
                     onUpdate |-> IF options.onUpdate = "none" THEN <<>>
                                  ELSE <<body>>]
        IN  IF options.onUpdate = "rejects"
            THEN [response |-> ErrorResponse(500, OnUpdateFailed), fs |-> raw.fs,
                  effects |-> done]
            ELSE [response |-> Response(200, "", TRUE, <<>>, raw.result.path,
                                        currentEnv),
                  fs |-> raw.fs, effects |-> done]
  IN  IF Gated(env, options)
      THEN [response |-> ErrorResponse(404, NotAvailable), fs |-> fs,
            effects |-> NoEffects]
      ELSE IF requestData.kind \in {"malformed", "null"}
      \* request.json() rejects, or requestData._targetEnv of null throws
      THEN [response |-> ErrorResponse(400, InvalidBody), fs |-> fs,
            effects |-> [NoEffects EXCEPT !.bodyRead = TRUE]]
      ELSE CHOOSE r \in
             {After(raw) : raw \in {WriteEnvVars(fs, body, targetEnvFile,
                                                readFails, writeFails)}} : TRUE

----------------------------------------------------------------------------
(* src/app/api/envkit/update/route.ts *)

DevelopmentOnly == "This endpoint is only available in development mode"
InvalidEnvVars == "Invalid request: envVars must be an object"
FailedToUpdate == "Failed to update environment variables"
ProcessingError == "An error occurred while processing the request"
UpdatedSuccessfully == "Environment variables updated successfully"

\* POST(request)
RoutePost(fs, env, requestData, readFails, writeFails) ==
  LET targetEnvFile == IF requestData.envFile = "" THEN ".env" ELSE requestData.envFile
      upd == UpdateEnvFile(fs, requestData.envVars, targetEnvFile, readFails, writeFails)
      read == [NoEffects EXCEPT !.bodyRead = TRUE]
      done == [bodyRead |-> TRUE,
               reads |-> IF ExistsSync(fs, targetEnvFile) THEN {targetEnvFile} ELSE {},
               wrote |-> upd.wrote, onUpdate |-> <<>>]
  IN  IF ~IsDevEnvironment(env)
      THEN [response |-> ErrorResponse(403, DevelopmentOnly), fs |-> fs,
            effects |-> NoEffects]
      ELSE IF requestData.kind \in {"malformed", "null"}
      \* request.json() rejects, or destructuring null throws
      THEN [response |-> ErrorResponse(500, ProcessingError), fs |-> fs, effects |-> read]
      ELSE IF ~requestData.hasEnvVars
      THEN [response |-> ErrorResponse(400, InvalidEnvVars), fs |-> fs, effects |-> read]
      ELSE IF upd.ok
      THEN [response |-> Response(200, "", TRUE, <<>>, "", ""), fs |-> upd.fs,
            effects |-> done]
      ELSE [response |-> ErrorResponse(500, FailedToUpdate), fs |-> upd.fs,
            effects |-> done]

----------------------------------------------------------------------------
(* packages/core/src/schema.ts, with valibot 0.28 (packages/nextjs/        *)
(* package.json).  createEnvSchema(requiredVars) is object({ key: string() })*)
(* over the required names; safeParse(schema, env) returns success and,    *)
(* on failure, issues: an array with one issue per required key whose      *)
(* value in env is not a string, in the order of the schema's keys.        *)

\* the keys of the issues of safeParse(createEnvSchema(requiredVars), env)
RECURSIVE IssueKeys(_, _)
IssueKeys(requiredVars, env) ==
  IF requiredVars = <<>> THEN <<>>
  ELSE IF Has(env, requiredVars[1])
       THEN IssueKeys(Tail(requiredVars), env)
       ELSE <<requiredVars[1]>> \o IssueKeys(Tail(requiredVars), env)

\* result.issues instanceof ValiError: issues is an array of issues, never
\* the error object
IssuesInstanceOfValiError == FALSE

\* validateEnv(createEnvSchema(requiredVars), env): success and missingVars
CoreValidateEnv(requiredVars, env) ==
  LET issues == IssueKeys(requiredVars, env)
      success == issues = <<>>
  IN  [success |-> success,
       missingVars |-> IF ~success /\ IssuesInstanceOfValiError THEN issues
                       ELSE <<>>]

\* coreStatusHandler(requiredVars, env) and apiUtils.checkMissingVars
CoreStatusHandler(requiredVars, env) ==
  LET validationResult == CoreValidateEnv(requiredVars, env)
  IN  [success |-> validationResult.success,
       missingVars |-> validationResult.missingVars,
       statusCode |-> 200]

----------------------------------------------------------------------------
(* The file system calls of an update and of a validation, one at a time. *)
(* Another process can run between two of them: the code takes no lock.   *)

\* the existing variables an update reads: updateEnvFile's
\* existsSync(filePath) ? readEnvFile(options) : {}, and writeEnvVars'
\* dotenv.parse(fs.readFileSync(targetFile)) when existsSync(targetFile)
ReadExisting(fs, fn, target) ==
  IF ~ExistsSync(fs, target) THEN EmptyMap
  ELSE IF fn = "updateEnvFile" THEN ReadEnvFile(fs, target, FALSE)
  ELSE DotenvParse(fs[target].content)

\* an overwrite that reads the target again at the time it writes
WriteMergedFresh(fs, fn, existing, variables, target) ==
  WriteFileSync(fs, target,
                StringifyEnvFile(Spread(ReadExisting(fs, fn, target), variables)))

\* the overwrite of an update: writeFileSync of { ...existing, ...variables }
\* as KEY=VALUE lines, existing being what the update read before
WriteMerged(fs, fn, existing, variables, target) ==
  WriteFileSync(fs, target, StringifyEnvFile(Spread(existing, variables)))

\* one iteration of the loop of validateEnv: envVar is pushed to missingVars
IsMissing(fs, env, penv, envVar) ==
  /\ envVar.required
  /\ Falsy(GetEnvValue(fs, env, penv, envVar.name, {}))
  /\ Falsy(envVar.defaultValue)

----------------------------------------------------------------------------
(* Inputs of the model *)

\* number of writes to the directory explored in one behaviour
MaxUpdates == 1
\* number of reads that fail during one operation
MaxFailing == 1

KeyA == <<"A">>
KeyB == <<"B">>

\* values of process.env.NODE_ENV
Modes == {"", "development", "production", "test"}

\* the files of the directory
FileNames ==
  {".env", ".env.local", ".env.development", ".env.development.local",
   ".env.production", ".env.production.local", ".env.test", ".env.test.local"}

\* the files an operation can consult when NODE_ENV is env
Relevant(env) ==
  {EnvFileCandidates(env, TRUE)[i] : i \in 1..4} \cup {".env.development"}

\* The initial content of a file that exists.  Every file gives A a value
\* of its own, so that a resolved value tells the file it came from.
InitContent(path) ==
  CASE path = ".env" -> <<"A", "=", "e", NL, "B", "=">>
    [] path = ".env.local" -> <<"A", "=", DQ, SQ, "l", SQ, DQ>>
    [] path = ".env.development" -> <<"A", "=", "d", SP, HASH, "c">>
    [] path = ".env.development.local" -> <<HASH, "c", NL, "A", "=", "D">>
    [] path = ".env.production" -> <<"A", "=", "q">>
    [] path = ".env.production.local" -> <<"A", SP, "=", SP, "Q", NL, "B", "=", "Q">>
    [] path = ".env.test" -> <<"A", "=", "t">>
    [] path = ".env.test.local" -> <<"A", "=", SQ, "T", SQ>>

\* process.env without NODE_ENV
ProcEnvs ==
  {EmptyMap,
   <<[k |-> KeyA, v |-> <<"p">>], [k |-> KeyB, v |-> <<>>]>>}

\* variables handed to an update
NewVars ==
  {<<[k |-> KeyA, v |-> <<"x">>]>>,
   <<[k |-> KeyB, v |-> <<"y">>]>>}

\* EnvVarConfig (the description plays no part)
EnvVar(name, required, defaultValue) ==
  [name |-> name, required |-> required, defaultValue |-> defaultValue]

\* the lists handed to validateEnv
EnvVarLists ==
  {<<>>,
   <<EnvVar(KeyA, TRUE, Undefined)>>,
   <<EnvVar(KeyB, TRUE, Def(<<"i">>)), EnvVar(KeyA, TRUE, Undefined)>>,
   <<EnvVar(KeyA, FALSE, Undefined), EnvVar(KeyB, TRUE, Undefined)>>,
   <<EnvVar(KeyB, TRUE, Def(<<>>))>>}

\* EnvApiHandlerOptions given to createEnvApiHandler
Options(allowInProduction, requiredVars, environments, onUpdate) ==
  [allowInProduction |-> allowInProduction, requiredVars |-> requiredVars,
   environments |-> environments, onUpdate |-> onUpdate]

NoEnvironments == [m \in {} |-> 0]

HandlerOptions ==
  {Options(FALSE, [defined |-> FALSE, value |-> <<>>], NoEnvironments, "none"),
   Options(TRUE, [defined |-> TRUE, value |-> <<KeyA, KeyB>>], NoEnvironments,
           "resolves"),
   Options(FALSE, [defined |-> TRUE, value |-> <<KeyA>>],
           [m \in {"production"} |->
              [requiredVars |-> <<KeyB>>, targetEnvFile |-> ".env.production"]],
           "rejects")}

\* the __ENVKIT_REQUIRED_VARS__ cookie of a status request
Cookies ==
  {[kind |-> "none", vars |-> <<>>],
   [kind |-> "malformed", vars |-> <<>>],
   [kind |-> "array", vars |-> <<KeyB, KeyA>>],
   [kind |-> "null", vars |-> <<>>]}

\* a request body without the field _targetEnv
NoTargetEnv == [defined |-> FALSE, value |-> ""]

\* the own enumerable properties of a JSON body that is not an object: none
\* for null and for a number, the elements by index for a string ("s") and
\* for an array (["s"])
PropertiesOf(kind) ==
  IF kind \in {"string", "array"} THEN <<[k |-> <<"0">>, v |-> <<"s">>]>>
  ELSE EmptyMap

NotAnObject == {"null", "string", "number", "array"}

\* the field _targetEnv with a falsy value: the empty string, and null
FalsyTargetEnvs ==
  {[defined |-> TRUE, value |-> "", text |-> <<>>],
   [defined |-> TRUE, value |-> "", text |-> <<"n", "u", "l", "l">>]}

\* the JSON body of a request to the update handler
UpdateRequests ==
  {[kind |-> "malformed", targetEnv |-> NoTargetEnv, vars |-> EmptyMap]}
  \cup {[kind |-> "object", targetEnv |-> t, vars |-> v] :
          t \in {NoTargetEnv, [defined |-> TRUE, value |-> "production"]},
          v \in NewVars}

\* more JSON bodies of a request to the update handler: the values that
\* are not objects, and objects with a falsy or a truthy _targetEnv
BodyRequests ==
  {[kind |-> kind, targetEnv |-> NoTargetEnv, vars |-> PropertiesOf(kind)] :
     kind \in NotAnObject}
  \cup {[kind |-> "object", targetEnv |-> t,
         vars |-> <<[k |-> KeyB, v |-> <<"y">>]>>] :
          t \in FalsyTargetEnvs \cup {[defined |-> TRUE, value |-> "production"]}}

\* the JSON body of a request to the legacy update route
RouteRequests ==
  {[kind |-> "malformed", hasEnvVars |-> FALSE, envVars |-> EmptyMap, envFile |-> ""],
   [kind |-> "object", hasEnvVars |-> FALSE, envVars |-> EmptyMap, envFile |-> ""]}
  \cup {[kind |-> "object", hasEnvVars |-> TRUE, envVars |-> v, envFile |-> f] :
          v \in NewVars, f \in {"", ".env.local"}}

\* more JSON bodies of a request to the legacy update route
RouteBodies ==
  {[kind |-> kind, hasEnvVars |-> FALSE, envVars |-> EmptyMap, envFile |-> ""] :
     kind \in NotAnObject}
  \cup {[kind |-> "object", hasEnvVars |-> TRUE,
         envVars |-> <<[k |-> KeyB, v |-> <<"y">>]>>, envFile |-> ""]}

\* the sets of files whose read can fail during one operation over paths
Failing(paths) == {F \in SUBSET paths : Cardinality(F) <= MaxFailing}

Range(seq) == {seq[i] : i \in 1..Len(seq)}

----------------------------------------------------------------------------
(* The state machine *)

\* no call is in progress: the caller has the result of the previous one
NoCall == [op |-> "none"]

\* the independent writers (other processes working on the same directory)
Writers == {"w1", "w2"}

\* a writer, or the validation, that is not in a call
NotCalling == [pc |-> "idle"]

Idle == last = NoCall

\* the value null
Null == [isNull |-> TRUE]

\* the checkStatus calls that can be in progress together
Calls == {"c1", "c2"}

\* an EnvKitApi after its constructor
NewEnvKitApi == [statusCache |-> Null, lastCheckTime |-> 0]

\* no browser takes part
NoClient ==
  /\ now = 0
  /\ api = NewEnvKitApi
  /\ calls = [c \in Calls |-> NotCalling]
  /\ update = NotCalling
  /\ provider = Null
  /\ sent = <<>>

Init ==
  /\ nodeEnv \in Modes
  /\ procEnv \in ProcEnvs
  /\ \E present \in SUBSET Relevant(nodeEnv) :
       files = [path \in FileNames |->
                  IF path \in present THEN FileOf(InitContent(path)) ELSE NoFile]
  /\ nUpdates = 0
  /\ last = NoCall
  /\ writers = [w \in Writers |-> NotCalling]
  /\ validation = NotCalling
  /\ NoClient

\* getEnvFilePaths()
DoGetEnvFilePaths ==
  /\ Idle
  /\ \E include \in BOOLEAN :
       last' = [op |-> "getEnvFilePaths", include |-> include,
                paths |-> GetEnvFilePaths(files, nodeEnv, include)]
  /\ UNCHANGED <<nodeEnv, procEnv, files, nUpdates, writers, validation, clientVars>>

\* readEnvFiles()
DoReadEnvFiles ==
  /\ Idle
  /\ \E include \in BOOLEAN :
     \E failing \in Failing(Range(GetEnvFilePaths(files, nodeEnv, include))) :
       last' = [op |-> "readEnvFiles", include |-> include, failing |-> failing,
                envVars |-> ReadEnvFiles(files, nodeEnv, include, failing)]
  /\ UNCHANGED <<nodeEnv, procEnv, files, nUpdates, writers, validation, clientVars>>

\* getEnvValue(key)
DoGetEnvValue ==
  /\ Idle
  /\ \E key \in {KeyA, KeyB} :
     \E failing \in Failing(Range(GetEnvFilePaths(files, nodeEnv, TRUE))) :
       last' = [op |-> "getEnvValue", key |-> key, failing |-> failing,
                value |-> GetEnvValue(files, nodeEnv, procEnv, key, failing)]
  /\ UNCHANGED <<nodeEnv, procEnv, files, nUpdates, writers, validation, clientVars>>

\* validateEnv(envVars)
DoValidateEnv ==
  /\ Idle
  /\ \E envVars \in EnvVarLists :
     \E failing \in Failing(Range(GetEnvFilePaths(files, nodeEnv, TRUE))) :
       last' = [op |-> "validateEnv", envVars |-> envVars, failing |-> failing,
                result |-> ValidateEnv(files, nodeEnv, procEnv, envVars, failing)]
  /\ UNCHANGED <<nodeEnv, procEnv, files, nUpdates, writers, validation, clientVars>>

\* loadEnvVars()
DoLoadEnvVars ==
  /\ Idle
  /\ \E failing \in Failing(LoadReads(files, DefaultEnvFiles)) :
       last' = [op |-> "loadEnvVars", failing |-> failing,
                merged |-> LoadEnvVars(files, procEnv, DefaultEnvFiles, failing)]
  /\ UNCHANGED <<nodeEnv, procEnv, files, nUpdates, writers, validation, clientVars>>

\* a request to the status handler
DoStatus ==
  /\ Idle
  /\ \E options \in HandlerOptions, cookie \in Cookies :
     \E failing \in Failing(LoadReads(files, DefaultEnvFiles)) :
     \E out \in {StatusHandler(files, nodeEnv, procEnv, options, cookie, failing)} :
       last' = [op |-> "status", options |-> options, cookie |-> cookie,
                failing |-> failing, pre |-> files,
                response |-> out.response, effects |-> out.effects]
  /\ UNCHANGED <<nodeEnv, procEnv, files, nUpdates, writers, validation, clientVars>>

\* updateEnvFile(newVars, { envFilePath })
DoUpdateEnvFile ==
  /\ Idle
  /\ nUpdates < MaxUpdates
  /\ \E newVars \in NewVars, envFilePath \in {".env", ".env.local"} :
     \E readFails \in {FALSE, ExistsSync(files, envFilePath)}, writeFails \in BOOLEAN :
     \E out \in {UpdateEnvFile(files, newVars, envFilePath, readFails, writeFails)} :
       /\ files' = out.fs
       /\ nUpdates' = IF out.wrote THEN nUpdates + 1 ELSE nUpdates
       /\ last' = [op |-> "updateEnvFile", newVars |-> newVars,
                   target |-> envFilePath, readFails |-> readFails,
                   writeFails |-> writeFails, pre |-> files,
                   ok |-> out.ok, wrote |-> out.wrote]
  /\ UNCHANGED <<nodeEnv, procEnv, writers, validation, clientVars>>

\* a request to the legacy update route
DoRoutePost ==
  /\ Idle
  /\ nUpdates < MaxUpdates
  /\ \E requestData \in RouteRequests :
     \E readFails \in BOOLEAN, writeFails \in BOOLEAN :
     \E out \in {RoutePost(files, nodeEnv, requestData, readFails, writeFails)} :
       /\ readFails => out.effects.reads # {}
       /\ writeFails => out.response.status \in {200, 500} /\ requestData.hasEnvVars
       /\ files' = out.fs
       /\ nUpdates' = IF out.effects.wrote THEN nUpdates + 1 ELSE nUpdates
       /\ last' = [op |-> "routePost", request |-> requestData,
                   readFails |-> readFails, writeFails |-> writeFails,
                   pre |-> files, response |-> out.response,
                   effects |-> out.effects]
  /\ UNCHANGED <<nodeEnv, procEnv, writers, validation, clientVars>>

\* writeEnvVars(variables, { targetEnvFile })
DoWriteEnvVars ==
  /\ Idle
  /\ nUpdates < MaxUpdates
  /\ \E variables \in NewVars, targetEnvFile \in {".env.local", ".env"} :
     \E readFails \in {FALSE, ExistsSync(files, targetEnvFile)}, writeFails \in BOOLEAN :
     \E out \in {WriteEnvVars(files, variables, targetEnvFile, readFails, writeFails)} :
       /\ readFails => ~writeFails
       /\ files' = out.fs
       /\ nUpdates' = IF out.wrote THEN nUpdates + 1 ELSE nUpdates
       /\ last' = [op |-> "writeEnvVars", variables |-> variables,
                   target |-> targetEnvFile, readFails |-> readFails,
                   writeFails |-> writeFails, pre |-> files,
                   result |-> out.result, wrote |-> out.wrote]
  /\ UNCHANGED <<nodeEnv, procEnv, writers, validation, clientVars>>

\* a request to the update handler
DoUpdate ==
  /\ Idle
  /\ nUpdates < MaxUpdates
  /\ \E options \in HandlerOptions, requestData \in UpdateRequests :
     \E readFails \in BOOLEAN, writeFails \in BOOLEAN :
     \E out \in {UpdateHandler(files, nodeEnv, options, requestData,
                               readFails, writeFails)} :
       /\ readFails => out.effects.reads # {} /\ ~writeFails
       /\ writeFails => out.response.status \in {200, 500}
       /\ files' = out.fs
       /\ nUpdates' = IF out.effects.wrote THEN nUpdates + 1 ELSE nUpdates
       /\ last' = [op |-> "update", options |-> options,
                   request |-> requestData, readFails |-> readFails,
                   writeFails |-> writeFails, pre |-> files,
                   response |-> out.response, effects |-> out.effects]
  /\ UNCHANGED <<nodeEnv, procEnv, writers, validation, clientVars>>

\* the caller takes the result of the call
Return ==
  /\ ~Idle
  /\ last' = NoCall
  /\ UNCHANGED <<nodeEnv, procEnv, files, nUpdates, writers, validation, clientVars>>

Next ==
  \/ DoGetEnvFilePaths
  \/ DoReadEnvFiles
  \/ DoGetEnvValue
  \/ DoValidateEnv
  \/ DoLoadEnvVars
  \/ DoStatus
  \/ DoUpdateEnvFile
  \/ DoRoutePost
  \/ DoWriteEnvVars
  \/ DoUpdate
  \/ Return

Spec == Init /\ [][Next]_vars

----------------------------------------------------------------------------
(* Properties of the resolution, Spec *)

\* the documented priority of the files when NODE_ENV is env, highest first
DocumentedOrder(env) ==
  LET m == NodeEnvOrDevelopment(env) IN
  <<".env.local", ".env." \o m \o ".local", ".env." \o m, ".env">>

\* the files of paths that exist and whose content defines key
Defining(fs, paths, key) ==
  LET Defines(path) == ExistsSync(fs, path) /\ Has(ParseEnvFile(fs[path].content), key)
  IN  SelectSeq(paths, Defines)

\* C1: whenever the process environment defines a key, getEnvValue returns
\* the value of the process environment for it, and the mapping returned by
\* loadEnvVars maps it to that value, whatever the files hold.
ProcessEnvWins ==
  /\ last.op = "getEnvValue" /\ Has(procEnv, last.key)
       => last.value = Def(Get(procEnv, last.key))
  /\ last.op = "loadEnvVars"
       => \A key \in Keys(procEnv) :
            Lookup(last.merged, key) = Def(Get(procEnv, key))

\* getEnvValue was asked for a key that the process environment defines and
\* that a candidate file defines with another value
ProcessEnvWinsWitness ==
  /\ last.op = "getEnvValue"
  /\ Has(procEnv, last.key)
  /\ \E path \in Range(GetEnvFilePaths(files, nodeEnv, TRUE)) :
       /\ path \notin last.failing
       /\ Has(ParseEnvFile(files[path].content), last.key)
       /\ Get(ParseEnvFile(files[path].content), last.key) # Get(procEnv, last.key)

\* C2: getEnvFilePaths returns the existing candidates in the order
\* .env.local, .env.<mode>.local, .env.<mode>, .env, and readEnvFiles gives
\* a key the value of the first file in that order that defines it.
FilePriorityOrder ==
  /\ last.op = "getEnvFilePaths" /\ last.include
       => LET Exists(path) == ExistsSync(files, path)
          IN  last.paths = SelectSeq(DocumentedOrder(nodeEnv), Exists)
  /\ last.op = "readEnvFiles" /\ last.include /\ last.failing = {}
       => \A key \in {KeyA, KeyB} :
            LET defining == Defining(files, DocumentedOrder(nodeEnv), key)
            IN  IF defining = <<>> THEN ~Has(last.envVars, key)
                ELSE Lookup(last.envVars, key)
                       = Lookup(ParseEnvFile(files[defining[1]].content), key)

\* C3: after a successful update the parsed content of the target equals
\* { ...parse(old content), ...newValues } (newValues when there was no
\* target), for updateEnvFile and for writeEnvVars.
MergeOnWrite ==
  /\ last.op = "updateEnvFile" /\ last.ok
       => AsFun(ParseEnvFile(files[last.target].content))
            = AsFun(Spread(IF last.pre[last.target].exists
                           THEN ParseEnvFile(last.pre[last.target].content)
                           ELSE EmptyMap,
                           last.newVars))
  /\ last.op = "writeEnvVars" /\ last.result.success
       => AsFun(DotenvParse(files[last.target].content))
            = AsFun(Spread(IF last.pre[last.target].exists
                           THEN DotenvParse(last.pre[last.target].content)
                           ELSE EmptyMap,
                           last.variables))

\* the key is present in some source: the process environment or a
\* candidate file
Present(fs, env, penv, key) ==
  Has(penv, key) \/ Defining(fs, DocumentedOrder(env), key) # <<>>

\* C4: validateEnv reports a spec missing iff it is required, its key is
\* present in no source, and its defaultValue is not a non-empty string.
MissingRule ==
  last.op = "validateEnv" /\ last.failing = {}
    => \A i \in 1..Len(last.envVars) :
         LET envVar == last.envVars[i] IN
         envVar \in Range(last.result.missingVars)
           <=> /\ envVar.required
               /\ ~Present(files, nodeEnv, procEnv, envVar.name)
               /\ ~(envVar.defaultValue.defined /\ envVar.defaultValue.value # <<>>)

\* a is b with some elements left out
RECURSIVE IsSubList(_, _)
IsSubList(a, b) ==
  IF a = <<>> THEN TRUE
  ELSE IF b = <<>> THEN FALSE
  ELSE IF a[1] = b[1] THEN IsSubList(Tail(a), Tail(b))
  ELSE IsSubList(a, Tail(b))

\* C5: the result of validateEnv has isValid = (missingVars is empty),
\* missingVars a sub-list of the declared variables and allVars the declared
\* variables; a 200 response of the status handler has
\* success = (missingVars is empty).
ValidationInvariant ==
  /\ last.op = "validateEnv"
       => /\ last.result.isValid <=> last.result.missingVars = <<>>
          /\ IsSubList(last.result.missingVars, last.envVars)
          /\ last.result.allVars = last.envVars
  /\ last.op = "status" /\ last.response.status = 200
       => (last.response.success <=> last.response.missingVars = <<>>)

\* validateEnv found a variable missing while a default kept another one
\* out of missingVars
ValidationInvariantWitness ==
  /\ last.op = "validateEnv"
  /\ Len(last.envVars) = 2
  /\ Len(last.result.missingVars) = 1
  /\ ~last.result.isValid

\* C6: in production without allowInProduction the status handler and the
\* update handler answer 'Not available in production' and do nothing else;
\* the legacy update route answers 403 and does nothing else whenever the
\* mode is not 'development'.
AccessGate ==
  /\ last.op \in {"status", "update"}
       /\ nodeEnv = "production" /\ ~last.options.allowInProduction
       => /\ last.response.error = NotAvailable
          /\ ~last.response.success
          /\ last.effects = NoEffects
          /\ files = last.pre
  /\ last.op = "routePost" /\ nodeEnv # "development"
       => /\ last.response.status = 403
          /\ last.effects = NoEffects
          /\ files = last.pre

\* an update request for an existing target was refused in production
AccessGateWitness ==
  /\ last.op = "update"
  /\ nodeEnv = "production"
  /\ ~last.options.allowInProduction
  /\ last.request.kind = "object"
  /\ files[".env.local"].exists
  /\ last.response.status = 404

\* C7: an update whose write fails reports failure; success is reported
\* only if the target file was written.
WriteFailureReported ==
  /\ last.op = "updateEnvFile" => (last.ok => last.wrote)
  /\ last.op = "routePost" => (last.response.success => last.effects.wrote)
  /\ last.op = "writeEnvVars" => (last.result.success => last.wrote)
  /\ last.op = "update" => (last.response.success => last.effects.wrote)

\* C8: when the target exists and cannot be read, the update reports
\* failure and leaves the target as it was.
AbortBeforeWrite ==
  /\ last.op = "updateEnvFile" /\ last.readFails /\ last.pre[last.target].exists
       => ~last.ok /\ files = last.pre
  /\ last.op = "writeEnvVars" /\ last.readFails /\ last.pre[last.target].exists
       => ~last.result.success /\ files = last.pre

\* C9: applying a successful update a second time with the same values
\* leaves the file as the first application left it.
Idempotence ==
  /\ last.op = "updateEnvFile" /\ last.ok
       => UpdateEnvFile(files, last.newVars, last.target, FALSE, FALSE).fs = files
  /\ last.op = "writeEnvVars" /\ last.result.success
       => WriteEnvVars(files, last.variables, last.target, FALSE, FALSE).fs = files

\* the handler returned no response: it threw, its promise rejected
Threw(response) == response.status = 0

\* C11: the status handler and the update handler answer every request
\* with a response; neither throws or rejects.
NoUncaughtFailure ==
  last.op \in {"status", "update"} => ~Threw(last.response)

\* the value of key in the first of paths that exists, is readable and
\* defines key (Parse is the parser of the operation)
FirstDefined(fs, paths, failing, Parse(_), key) ==
  LET Defines(path) ==
        /\ ExistsSync(fs, path)
        /\ path \notin failing
        /\ Has(Parse(fs[path].content), key)
      defining == SelectSeq(paths, Defines)
  IN  IF defining = <<>> THEN Undefined
      ELSE Def(Get(Parse(fs[defining[1]].content), key))

ModeFiles(env) ==
  LET m == NodeEnvOrDevelopment(env) IN {".env." \o m \o ".local", ".env." \o m}

\* C17: the per-mode files a status query consults are those of the
\* runtime mode m: getEnvFilePaths returns .env.m.local and .env.m when
\* they exist, and a required key that .env.m or .env.m.local defines with
\* a value is not reported missing by the status handler.
ModeDependentCandidates ==
  /\ last.op = "getEnvFilePaths" /\ last.include
       => \A path \in ModeFiles(nodeEnv) :
            ExistsSync(files, path) <=> path \in Range(last.paths)
  /\ last.op = "status" /\ last.response.status = 200 /\ last.failing = {}
       => \A key \in {KeyA, KeyB} :
            (\E path \in ModeFiles(nodeEnv) :
               /\ ExistsSync(files, path)
               /\ ~Falsy(Lookup(DotenvParse(files[path].content), key)))
              => key \notin Range(last.response.missingVars)

\* the files that differ between two states of the directory
Changed(before, after) == {path \in FileNames : before[path] # after[path]}

\* C19: a status query leaves the process environment and every file as
\* they were; an update changes at most one file, the target where the
\* caller names it, and never the process environment.
ResolutionIsReadOnly ==
  [][/\ procEnv' = procEnv
     /\ nodeEnv' = nodeEnv
     /\ last'.op \in {"getEnvFilePaths", "readEnvFiles", "getEnvValue",
                      "validateEnv", "loadEnvVars", "status"}
          => files' = files
     /\ last'.op \in {"updateEnvFile", "writeEnvVars"}
          => Changed(files, files') \subseteq {last'.target}
     /\ last'.op \in {"routePost", "update"}
          => Cardinality(Changed(files, files')) <= 1]_vars

\* an update through the handler changed its target while another file of
\* the directory exists
ResolutionIsReadOnlyWitness ==
  /\ last.op = "update"
  /\ last.effects.wrote
  /\ Changed(last.pre, files) = {".env.local"}
  /\ files[".env"].exists

\* C20: when the update handler answers with an error (400, 404, 500) the
\* target file is as it was before the request, also when onUpdate fails.
AtomicFailure ==
  last.op = "update" /\ last.response.status # 200 => files = last.pre

\* C22: the update handler invokes onUpdate at most once, only after the
\* variables were written to the target file and with those variables;
\* never for a request that was rejected or whose write failed.
OnUpdateAfterWrite ==
  last.op = "update" =>
    /\ Len(last.effects.onUpdate) <= 1
    /\ last.effects.onUpdate # <<>> =>
         /\ last.effects.wrote
         /\ last.effects.onUpdate[1] = BodyOf(last.request)
         /\ last.response.status \notin {400, 404}

\* the answer of the status handler to a query on the files fs, with the
\* options of the last update and the process environment as it is
StatusOn(fs, cookie) ==
  StatusHandler(fs, nodeEnv, procEnv, last.options, cookie, {}).response

\* C24: outside production, when a status response lists the missing
\* variables M and an update then succeeds with a non-empty value for
\* every key of M, the next status query answers success with no missing
\* variable, for every process environment and every target file.
UpdateMakesStatusPass ==
  last.op = "update" /\ last.request.kind = "object" /\ nodeEnv # "production"
    /\ last.response.status = 200 /\ last.response.success
    => \A cookie \in {c \in Cookies : c.kind \in {"none", "array"}} :
         LET before == StatusOn(last.pre, cookie)
             after == StatusOn(files, cookie)
         IN  before.status = 200
             /\ (\A key \in Range(before.missingVars) :
                   ~Falsy(Lookup(last.request.vars, key)))
             => after.status = 200 /\ after.success /\ after.missingVars = <<>>

----------------------------------------------------------------------------
(* Independent writers and a validation working on one directory,         *)
(* SpecConcurrent: each writer makes one update call, the validation one  *)
(* validateEnv call; nUpdates counts the overwrites done so far.          *)

\* the file the writers update
SharedTarget == ".env.local"

\* the variables a writer sends
WriterVars ==
  NewVars \cup {<<[k |-> KeyA, v |-> <<"x">>], [k |-> KeyB, v |-> <<"y">>]>>}

\* the list the validation checks
CheckedVars == <<EnvVar(KeyA, TRUE, Undefined), EnvVar(KeyB, TRUE, Undefined)>>

InitConcurrent ==
  /\ nodeEnv = "development"
  /\ procEnv = EmptyMap
  /\ \E present \in SUBSET {SharedTarget, ".env"} :
       files = [path \in FileNames |->
                  IF path \in present THEN FileOf(InitContent(path)) ELSE NoFile]
  /\ nUpdates = 0
  /\ last = NoCall
  /\ writers = [w \in Writers |-> NotCalling]
  /\ validation = NotCalling
  /\ NoClient

\* writer w calls updateEnvFile or writeEnvVars, which reads the target
WriterReads(w) ==
  /\ writers[w].pc = "idle"
  /\ \E fn \in {"updateEnvFile", "writeEnvVars"}, variables \in WriterVars :
       writers' = [writers EXCEPT ![w] =
                     [pc |-> "read", fn |-> fn, variables |-> variables,
                      existing |-> ReadExisting(files, fn, SharedTarget),
                      readAt |-> nUpdates]]
  /\ UNCHANGED <<nodeEnv, procEnv, files, nUpdates, last, validation, clientVars>>

\* the call of writer w overwrites the target and returns
WriterWrites(w) ==
  /\ writers[w].pc = "read"
  /\ \E fs \in {WriteMerged(files, writers[w].fn, writers[w].existing,
                            writers[w].variables, SharedTarget)} :
       /\ files' = fs
       /\ validation' =
            IF validation.pc = "checking"
            THEN [validation EXCEPT !.snapshots = @ \cup {fs}]
            ELSE validation
  /\ nUpdates' = nUpdates + 1
  /\ writers' = [writers EXCEPT ![w] =
                   [pc |-> "done", fn |-> writers[w].fn,
                    variables |-> writers[w].variables,
                    existing |-> writers[w].existing,
                    readAt |-> writers[w].readAt, wroteAt |-> nUpdates + 1]]
  /\ UNCHANGED <<nodeEnv, procEnv, last, clientVars>>

\* validateEnv(CheckedVars) is called
ValidationStarts ==
  /\ validation.pc = "idle"
  /\ validation' = [pc |-> "checking", envVars |-> CheckedVars, checked |-> 0,
                    missingVars |-> <<>>, snapshots |-> {files}]
  /\ UNCHANGED <<nodeEnv, procEnv, files, nUpdates, last, writers, clientVars>>

\* the loop of validateEnv checks its next variable: getEnvValue reads the
\* files as they are now
ValidationChecks ==
  /\ validation.pc = "checking"
  /\ validation.checked < Len(validation.envVars)
  /\ LET envVar == validation.envVars[validation.checked + 1] IN
     validation' =
       [validation EXCEPT
          !.checked = @ + 1,
          !.missingVars = IF IsMissing(files, nodeEnv, procEnv, envVar)
                          THEN Append(@, envVar) ELSE @]
  /\ UNCHANGED <<nodeEnv, procEnv, files, nUpdates, last, writers, clientVars>>

\* validateEnv returns its result
ValidationReturns ==
  /\ validation.pc = "checking"
  /\ validation.checked = Len(validation.envVars)
  /\ validation' =
       [pc |-> "done", envVars |-> validation.envVars,
        snapshots |-> validation.snapshots,
        result |-> [isValid |-> validation.missingVars = <<>>,
                    missingVars |-> validation.missingVars,
                    allVars |-> validation.envVars]]
  /\ UNCHANGED <<nodeEnv, procEnv, files, nUpdates, last, writers, clientVars>>

NextConcurrent ==
  \/ \E w \in Writers : WriterReads(w)
  \/ \E w \in Writers : WriterWrites(w)
  \/ ValidationStarts
  \/ ValidationChecks
  \/ ValidationReturns

SpecConcurrent == InitConcurrent /\ [][NextConcurrent]_vars

\* writers a and b have both written, b after a, and b had read the target
\* before a wrote it
ReadBeforeEitherWrote(a, b) ==
  /\ a # b
  /\ writers[a].pc = "done" /\ writers[b].pc = "done"
  /\ writers[a].wroteAt < writers[b].wroteAt
  /\ writers[b].readAt < writers[a].wroteAt

\* the keys of writer a that writer b neither read nor sends
OnlyOf(a, b) ==
  Keys(writers[a].variables) \ (Keys(writers[b].existing) \cup Keys(writers[b].variables))

\* C13: when two independent writers update the same file and both read it
\* before either writes, the file ends as the later writer's merge of what
\* it read with its own variables, without the earlier writer's new keys.
LostUpdate ==
  \A a \in Writers, b \in Writers :
    ReadBeforeEitherWrote(a, b)
      => /\ files[SharedTarget].content
              = StringifyEnvFile(Spread(writers[b].existing, writers[b].variables))
         /\ \A key \in OnlyOf(a, b) :
              /\ ~Has(ParseEnvFile(files[SharedTarget].content), key)
              /\ ~Has(DotenvParse(files[SharedTarget].content), key)

\* the lost update: the earlier writer's call returned, and its new key is
\* not in the file
LostUpdateWitness ==
  \E a \in Writers, b \in Writers :
    /\ ReadBeforeEitherWrote(a, b)
    /\ OnlyOf(a, b) # {}
    /\ files[SharedTarget].exists

\* C18: one call of validateEnv checks all its variables against one state
\* of the files: its result is the validation of a state the directory was
\* in during the call, whatever another writer does meanwhile.
SnapshotAtomicity ==
  validation.pc = "done"
    => \E snapshot \in validation.snapshots :
         validation.result
           = ValidateEnv(snapshot, nodeEnv, procEnv, validation.envVars, {})

----------------------------------------------------------------------------
(* The update handlers on unusual bodies, SpecBodies: requests whose JSON *)
(* body is not an object, or holds the field _targetEnv, are sent to the  *)
(* update handler and to the legacy route.                                *)

InitBodies ==
  /\ nodeEnv \in Modes
  /\ procEnv = EmptyMap
  /\ \E present \in SUBSET {".env.local", ".env"} :
       files = [path \in FileNames |->
                  IF path \in present THEN FileOf(InitContent(path)) ELSE NoFile]
  /\ nUpdates = 0
  /\ last = NoCall
  /\ writers = [w \in Writers |-> NotCalling]
  /\ validation = NotCalling
  /\ NoClient

\* a request to the update handler
DoUpdateBody ==
  /\ Idle
  /\ nUpdates < MaxUpdates
  /\ \E options \in HandlerOptions, requestData \in BodyRequests :
     \E readFails \in BOOLEAN, writeFails \in BOOLEAN :
     \E out \in {UpdateHandler(files, nodeEnv, options, requestData,
                               readFails, writeFails)} :
       /\ readFails => out.effects.reads # {} /\ ~writeFails
       /\ writeFails => out.response.status \in {200, 500}
       /\ files' = out.fs
       /\ nUpdates' = IF out.effects.wrote THEN nUpdates + 1 ELSE nUpdates
       /\ last' = [op |-> "update", options |-> options,
                   request |-> requestData, readFails |-> readFails,
                   writeFails |-> writeFails, pre |-> files,
                   response |-> out.response, effects |-> out.effects]
  /\ UNCHANGED <<nodeEnv, procEnv, writers, validation, clientVars>>

\* a request to the legacy update route
DoRouteBody ==
  /\ Idle
  /\ nUpdates < MaxUpdates
  /\ \E requestData \in RouteBodies :
     \E readFails \in BOOLEAN, writeFails \in BOOLEAN :
     \E out \in {RoutePost(files, nodeEnv, requestData, readFails, writeFails)} :
       /\ readFails => out.effects.reads # {}
       /\ writeFails => out.response.status \in {200, 500} /\ requestData.hasEnvVars
       /\ files' = out.fs
       /\ nUpdates' = IF out.effects.wrote THEN nUpdates + 1 ELSE nUpdates
       /\ last' = [op |-> "routePost", request |-> requestData,
                   readFails |-> readFails, writeFails |-> writeFails,
                   pre |-> files, response |-> out.response,
                   effects |-> out.effects]
  /\ UNCHANGED <<nodeEnv, procEnv, writers, validation, clientVars>>

\* the caller takes the response
ReturnBody ==
  /\ ~Idle
  /\ last' = NoCall
  /\ UNCHANGED <<nodeEnv, procEnv, files, nUpdates, writers, validation, clientVars>>

NextBodies == DoUpdateBody \/ DoRouteBody \/ ReturnBody

SpecBodies == InitBodies /\ [][NextBodies]_vars

\* C23: an update request whose JSON body is not an object of variables
\* (a string, a number, an array, null) is answered with status 400 and
\* leaves every file as it was.
BodyValidation ==
  last.op \in {"update", "routePost"} /\ last.request.kind \in NotAnObject
    /\ last.response.status \notin {403, 404}
    => last.response.status = 400 /\ files = last.pre

\* C30: the field _targetEnv of an update request only selects the
\* environment and is removed before writing: after a successful update no
\* file holds an entry whose key is _targetEnv, whatever the field's value.
ControlFieldNotPersisted ==
  last.op = "update" /\ last.response.status = 200 /\ last.effects.wrote =>
    \A path \in FileNames :
      files[path].exists =>
        /\ ~Has(DotenvParse(files[path].content), TargetEnvKey)
        /\ ~Has(ParseEnvFile(files[path].content), TargetEnvKey)

----------------------------------------------------------------------------
(* Two update calls started in one process on one target, SpecInProcess.  *)
(* The process runs one call at a time and can switch to the other call   *)
(* only where a call awaits: writeEnvVars awaits its three imports and    *)
(* then runs existsSync, readFileSync, the merge and writeFileSync with   *)
(* no await between them; updateEnvFile has no await at all.  No read or  *)
(* write fails here.                                                      *)

\* the awaits of writeEnvVars before its file system calls
ImportsOfWriteEnvVars == <<"fs", "path", "dotenv">>

\* the variables a call sends
CallVars == WriterVars \cup {<<[k |-> KeyA, v |-> <<"z">>]>>}

InitInProcess ==
  /\ nodeEnv = "development"
  /\ procEnv = EmptyMap
  /\ \E present \in SUBSET {SharedTarget} :
       files = [path \in FileNames |->
                  IF path \in present THEN FileOf(InitContent(path)) ELSE NoFile]
  /\ nUpdates = 0
  /\ last = NoCall
  /\ writers = [w \in Writers |-> NotCalling]
  /\ validation = NotCalling
  /\ NoClient

\* updateEnvFile(variables, { envFilePath }) is called and runs to its end
CallUpdateEnvFile(w) ==
  /\ writers[w].pc = "idle"
  /\ \E variables \in CallVars :
     \E out \in {UpdateEnvFile(files, variables, SharedTarget, FALSE, FALSE)} :
       /\ files' = out.fs
       /\ writers' = [writers EXCEPT ![w] =
                        [pc |-> "done", fn |-> "updateEnvFile",
                         variables |-> variables, calledAt |-> nUpdates,
                         wroteAt |-> nUpdates + 1]]
  /\ nUpdates' = nUpdates + 1
  /\ UNCHANGED <<nodeEnv, procEnv, last, validation, clientVars>>

\* writeEnvVars(variables, { targetEnvFile }) is called and runs to its
\* first await
CallWriteEnvVars(w) ==
  /\ writers[w].pc = "idle"
  /\ \E variables \in CallVars :
       writers' = [writers EXCEPT ![w] =
                     [pc |-> "await", fn |-> "writeEnvVars",
                      variables |-> variables, calledAt |-> nUpdates,
                      imported |-> 0]]
  /\ UNCHANGED <<nodeEnv, procEnv, files, nUpdates, last, validation, clientVars>>

\* an import of writeEnvVars resolves and the call runs to its next await
WriteEnvVarsImports(w) ==
  /\ writers[w].pc = "await"
  /\ writers[w].imported + 1 < Len(ImportsOfWriteEnvVars)
  /\ writers' = [writers EXCEPT ![w].imported = @ + 1]
  /\ UNCHANGED <<nodeEnv, procEnv, files, nUpdates, last, validation, clientVars>>

\* the last import resolves and the call runs to its end: it reads the
\* target, merges and overwrites
WriteEnvVarsWrites(w) ==
  /\ writers[w].pc = "await"
  /\ writers[w].imported + 1 = Len(ImportsOfWriteEnvVars)
  /\ \E out \in {WriteEnvVars(files, writers[w].variables, SharedTarget,
                              FALSE, FALSE)} :
       files' = out.fs
  /\ nUpdates' = nUpdates + 1
  /\ writers' = [writers EXCEPT ![w] =
                   [pc |-> "done", fn |-> "writeEnvVars",
                    variables |-> writers[w].variables,
                    calledAt |-> writers[w].calledAt, wroteAt |-> nUpdates + 1]]
  /\ UNCHANGED <<nodeEnv, procEnv, last, validation, clientVars>>

NextInProcess ==
  \/ \E w \in Writers : CallUpdateEnvFile(w)
  \/ \E w \in Writers : CallWriteEnvVars(w)
  \/ \E w \in Writers : WriteEnvVarsImports(w)
  \/ \E w \in Writers : WriteEnvVarsWrites(w)

SpecInProcess == InitInProcess /\ [][NextInProcess]_vars

\* both calls have returned, b wrote after a
BothReturned(a, b) ==
  /\ a # b
  /\ writers[a].pc = "done" /\ writers[b].pc = "done"
  /\ writers[a].wroteAt < writers[b].wroteAt

\* C26: in one process the read, the merge and the overwrite of an update
\* are one step, so for every interleaving of two update calls on one
\* target the file ends with the keys of both calls and, on a common key,
\* the value of the call whose step ran last.
InProcessAtomicity ==
  \A a \in Writers, b \in Writers :
    BothReturned(a, b) =>
      \A parsed \in {ParseEnvFile(files[SharedTarget].content),
                     DotenvParse(files[SharedTarget].content)} :
        /\ \A key \in Keys(writers[b].variables) :
             Lookup(parsed, key) = Def(Get(writers[b].variables, key))
        /\ \A key \in Keys(writers[a].variables) \ Keys(writers[b].variables) :
             Lookup(parsed, key) = Def(Get(writers[a].variables, key))

\* two writeEnvVars calls overlapped: the later writer was called before
\* the earlier one wrote, and the earlier one sent a key the later did not
InProcessAtomicityWitness ==
  \E a \in Writers, b \in Writers :
    /\ BothReturned(a, b)
    /\ writers[a].fn = "writeEnvVars" /\ writers[b].fn = "writeEnvVars"
    /\ writers[b].calledAt < writers[a].wroteAt
    /\ Keys(writers[a].variables) \ Keys(writers[b].variables) # {}
    /\ files[SharedTarget].exists

----------------------------------------------------------------------------
(* The serialisers and parsers on their own, SpecParse: a mapping is      *)
(* serialised as writeEnvFile / stringifyEnvFile do and the text is given *)
(* to the parseEnvFile of the same package.                               *)

MaxKeyLen == 2
MaxValueLen == 2

ParseChars == {"A", EQ, DQ, SQ, SP, HASH, NL}

RECURSIVE Strs(_)
Strs(n) ==
  IF n = 0 THEN {<<>>}
  ELSE LET shorter == Strs(n - 1)
       IN  shorter \cup {Append(str, c) : str \in shorter, c \in ParseChars}

PairKeys == {<<"A">>, <<"A", "A">>, <<"A", SP>>}
PairValues == {<<>>, <<"A">>, <<DQ>>, <<"A", EQ>>}

\* the mappings handed to the serialisers: every one-entry mapping within
\* the length bounds, and two-entry mappings (the keys of an object are
\* distinct)
Mappings ==
  {EmptyMap}
  \cup {<<[k |-> key, v |-> value]>> : key \in Strs(MaxKeyLen), value \in Strs(MaxValueLen)}
  \cup UNION {{<<[k |-> a, v |-> x], [k |-> b, v |-> y]>> :
                  b \in PairKeys \ {a}, x \in PairValues, y \in PairValues} :
                a \in PairKeys}

InitParse ==
  /\ nodeEnv = "development"
  /\ procEnv = EmptyMap
  /\ files = [path \in FileNames |-> NoFile]
  /\ nUpdates = 0
  /\ \E m \in Mappings : last = [op |-> "mapping", m |-> m]
  /\ writers = [w \in Writers |-> NotCalling]
  /\ validation = NotCalling
  /\ NoClient

\* fileUtils: the content writeEnvFile writes for m, read back by parseEnvFile
DoWriteThenParse ==
  /\ last.op = "mapping"
  /\ \E content \in {StringifyEnvFile(last.m)} :
       last' = [op |-> "writeThenParse", m |-> last.m, content |-> content,
                parsed |-> ParseEnvFile(content)]
  /\ UNCHANGED <<nodeEnv, procEnv, files, nUpdates, writers, validation, clientVars>>

\* core: parseEnvFile(stringifyEnvFile(m))
DoStringifyThenParse ==
  /\ last.op = "mapping"
  /\ \E content \in {StringifyEnvFile(last.m)} :
       last' = [op |-> "stringifyThenParse", m |-> last.m, content |-> content,
                parsed |-> CoreParseEnvFile(content)]
  /\ UNCHANGED <<nodeEnv, procEnv, files, nUpdates, writers, validation, clientVars>>

\* the caller keeps the mapping for the next call
ReturnParse ==
  /\ last.op \in {"writeThenParse", "stringifyThenParse"}
  /\ last' = [op |-> "mapping", m |-> last.m]
  /\ UNCHANGED <<nodeEnv, procEnv, files, nUpdates, writers, validation, clientVars>>

NextParse == DoWriteThenParse \/ DoStringifyThenParse \/ ReturnParse

SpecParse == InitParse /\ [][NextParse]_vars

RoundTripDone == last.op \in {"writeThenParse", "stringifyThenParse"}

\* the keys have no quote and no '=', the values no newline
QuoteFreeKeys(m) ==
  \A i \in 1..Len(m) :
    /\ \A j \in 1..Len(m[i].k) : ~IsQuote(m[i].k[j]) /\ m[i].k[j] # EQ
    /\ \A j \in 1..Len(m[i].v) : m[i].v[j] # NL

\* C10 as stated: every mapping whose keys contain no quote and no '=' and
\* whose values contain no newline is read back unchanged from its
\* serialisation.
RoundTripAsStated ==
  RoundTripDone /\ QuoteFreeKeys(last.m) => AsFun(last.parsed) = AsFun(last.m)

\* what a line-based KEY=VALUE text can carry: keys that are non-empty, free
\* of newlines and of surrounding whitespace and do not start a comment;
\* values free of surrounding whitespace that are not wrapped in quotes
PlainEntries(m) ==
  \A i \in 1..Len(m) :
    /\ m[i].k # <<>>
    /\ \A j \in 1..Len(m[i].k) : m[i].k[j] # NL
    /\ Trim(m[i].k) = m[i].k
    /\ m[i].k[1] # HASH
    /\ Trim(m[i].v) = m[i].v
    /\ ~(Len(m[i].v) >= 2 /\ IsQuote(m[i].v[1]) /\ IsQuote(m[i].v[Len(m[i].v)]))

\* C10, amended: a mapping of plain entries whose keys contain no quote and
\* no '=' and whose values contain no newline is read back unchanged from
\* its serialisation, by fileUtils and by core.
RoundTripLaw ==
  RoundTripDone /\ QuoteFreeKeys(last.m) /\ PlainEntries(last.m)
    => AsFun(last.parsed) = AsFun(last.m)

\* a mapping of plain entries with a value that holds a quote, and one with
\* a value that holds '=', went through the round trip
RoundTripLawWitness ==
  /\ RoundTripDone
  /\ QuoteFreeKeys(last.m) /\ PlainEntries(last.m)
  /\ Len(last.m) = 2
  /\ last.m[1].v = <<DQ>>
  /\ last.m[2].v = <<"A", EQ>>

----------------------------------------------------------------------------
(* The parsers on texts, SpecLines: a text is given to the parseEnvFile   *)
(* of fileUtils, of core and of DefaultFallbackUI.                        *)

MaxTextLen == 5

\* texts longer than the bound, for the cases that need them
LongTexts ==
  {<<"A", EQ, "A", NL, "A", EQ>>,
   <<"A", EQ, NL, "A", EQ, "A">>,
   <<"A", EQ, "x", NL, "B", EQ, "y", NL, SP, "A", SP, EQ, DQ, "z", DQ>>,
   <<"A", EQ, DQ, "x", SQ, NL, "A", EQ, SQ, "x", SQ, NL, HASH, "A", EQ, "y">>}

Texts == Strs(MaxTextLen) \cup LongTexts

InitLines ==
  /\ nodeEnv = "development"
  /\ procEnv = EmptyMap
  /\ files = [path \in FileNames |-> NoFile]
  /\ nUpdates = 0
  /\ \E content \in Texts : last = [op |-> "text", content |-> content]
  /\ writers = [w \in Writers |-> NotCalling]
  /\ validation = NotCalling
  /\ NoClient

\* fileUtils: parseEnvFile(content)
DoParseEnvFile ==
  /\ last.op = "text"
  /\ last' = [op |-> "parseEnvFile", content |-> last.content,
              parsed |-> ParseEnvFile(last.content)]
  /\ UNCHANGED <<nodeEnv, procEnv, files, nUpdates, writers, validation, clientVars>>

\* core: parseEnvFile(content)
DoCoreParseEnvFile ==
  /\ last.op = "text"
  /\ last' = [op |-> "coreParseEnvFile", content |-> last.content,
              parsed |-> CoreParseEnvFile(last.content)]
  /\ UNCHANGED <<nodeEnv, procEnv, files, nUpdates, writers, validation, clientVars>>

\* DefaultFallbackUI: parseEnvFile(content)
DoFallbackParseEnvFile ==
  /\ last.op = "text"
  /\ last' = [op |-> "fallbackParseEnvFile", content |-> last.content,
              parsed |-> FallbackParseEnvFile(last.content)]
  /\ UNCHANGED <<nodeEnv, procEnv, files, nUpdates, writers, validation, clientVars>>

\* the caller keeps the text for the next call
ReturnLines ==
  /\ last.op \in {"parseEnvFile", "coreParseEnvFile", "fallbackParseEnvFile"}
  /\ last' = [op |-> "text", content |-> last.content]
  /\ UNCHANGED <<nodeEnv, procEnv, files, nUpdates, writers, validation, clientVars>>

NextLines ==
  DoParseEnvFile \/ DoCoreParseEnvFile \/ DoFallbackParseEnvFile \/ ReturnLines

SpecLines == InitLines /\ [][NextLines]_vars

Parsed == last.op \in {"parseEnvFile", "coreParseEnvFile"}

\* what the documented format says of one line: it is skipped when it is
\* empty or a comment after trimming or has no '='; otherwise its key is
\* the trimmed text before the first '=' and its raw value the trimmed text
\* after it
Skipped(line) ==
  \/ Trim(line) = <<>>
  \/ Trim(line)[1] = HASH
  \/ IndexOf(line, EQ) = 0

KeyOfLine(line) == Trim(SubSeq(line, 1, IndexOf(line, EQ) - 1))

RawValueOfLine(line) == Trim(SubSeq(line, IndexOf(line, EQ) + 1, Len(line)))

\* the value is wrapped in two quote characters, equal or not
Wrapped(value) ==
  Len(value) >= 2 /\ IsQuote(value[1]) /\ IsQuote(value[Len(value)])

\* the lines of the text that give an entry for a non-empty key, and the
\* last of them for each key
EntryLines(content) ==
  LET ls == SplitLines(content)
  IN  {i \in 1..Len(ls) : ~Skipped(ls[i]) /\ KeyOfLine(ls[i]) # <<>>}

LastEntryLines(content) ==
  LET ls == SplitLines(content)
  IN  {i \in EntryLines(content) :
         \A j \in EntryLines(content) : KeyOfLine(ls[j]) = KeyOfLine(ls[i]) => j <= i}

\* C14: the parsers split a line at its first '=' only, trim key and value
\* independently, and take no entry from a line that is empty, a comment or
\* without '=': the non-empty keys of the result are the keys of the other
\* lines, and a key's value is all that follows the first '=' of its
\* (last) line, trimmed (quotes around it aside).
LineSplitting ==
  Parsed =>
    LET ls == SplitLines(last.content) IN
    /\ Keys(last.parsed) \ {<<>>}
         = {KeyOfLine(ls[i]) : i \in EntryLines(last.content)}
    /\ \A i \in LastEntryLines(last.content) :
         ~Wrapped(RawValueOfLine(ls[i]))
           => Lookup(last.parsed, KeyOfLine(ls[i])) = Def(RawValueOfLine(ls[i]))

\* a line with a second '=' was parsed: the value keeps it
LineSplittingWitness ==
  /\ Parsed
  /\ last.content = <<"A", EQ, "A", EQ, "A">>
  /\ Lookup(last.parsed, <<"A">>) = Def(<<"A", EQ, "A">>)

\* C15: the parsers remove one layer of quoting from a trimmed value if
\* and only if it is wrapped in a matching pair of quotes; with different
\* quotes at its ends, or a quote at one end only, it is stored unchanged.
QuoteStripping ==
  Parsed =>
    LET ls == SplitLines(last.content) IN
    \A i \in LastEntryLines(last.content) :
      LET raw == RawValueOfLine(ls[i]) IN
      Lookup(last.parsed, KeyOfLine(ls[i]))
        = IF Wrapped(raw) /\ raw[1] = raw[Len(raw)]
          THEN Def(SubSeq(raw, 2, Len(raw) - 1))
          ELSE Def(raw)

\* C16: when a key is on several lines of a text the result holds the
\* value of its last line, and the result holds each key once.
LastLineWins ==
  Parsed =>
    LET ls == SplitLines(last.content)
        OfLine(i) == IF last.op = "parseEnvFile" THEN ParseEnvFile(ls[i])
                     ELSE CoreParseEnvFile(ls[i])
    IN  /\ Cardinality(Keys(last.parsed)) = Len(last.parsed)
        /\ \A i \in 1..Len(ls) : \A key \in Keys(OfLine(i)) :
             (\A j \in (i + 1)..Len(ls) : ~Has(OfLine(j), key))
               => Lookup(last.parsed, key) = Lookup(OfLine(i), key)

\* a text with two lines for one key, with different values, was parsed
LastLineWinsWitness ==
  /\ Parsed
  /\ last.content = <<"A", EQ, "A", NL, "A", EQ>>
  /\ last.parsed = <<[k |-> <<"A">>, v |-> <<>>]>>

\* C25: the three copies of parseEnvFile (fileUtils, core, DefaultFallbackUI)
\* return the same mapping for every text.
ParserAgreement ==
  last.op \in {"parseEnvFile", "coreParseEnvFile", "fallbackParseEnvFile"} =>
    /\ last.parsed = ParseEnvFile(last.content)
    /\ last.parsed = CoreParseEnvFile(last.content)
    /\ last.parsed = FallbackParseEnvFile(last.content)

----------------------------------------------------------------------------
(* The schema validation of core on its own, SpecSchema: a list of        *)
(* required names and an env are given to validateEnv and to               *)
(* coreStatusHandler.                                                      *)

KeyC == <<"C">>

\* the lists of required names: the lists without repetition over three keys
RequiredLists ==
  LET keys == {KeyA, KeyB, KeyC}
  IN  {<<>>}
      \cup {<<a>> : a \in keys}
      \cup UNION {{<<a, b>> : b \in keys \ {a}} : a \in keys}
      \cup UNION {UNION {{<<a, b, c>> : c \in keys \ {a, b}} : b \in keys \ {a}} :
                  a \in keys}

\* the envs: each of the three keys absent, the empty string, or a value
SchemaEnvs ==
  LET Entry(key, val) == IF val = "absent" THEN <<>>
                         ELSE <<[k |-> key, v |-> IF val = "empty" THEN <<>> ELSE <<"v">>]>>
      vals == {"absent", "empty", "value"}
  IN  {Entry(KeyA, a) \o Entry(KeyB, b) \o Entry(KeyC, c) :
         a \in vals, b \in vals, c \in vals}

InitSchema ==
  /\ nodeEnv = "development"
  /\ procEnv \in SchemaEnvs
  /\ files = [path \in FileNames |-> NoFile]
  /\ nUpdates = 0
  /\ \E requiredVars \in RequiredLists :
       last = [op |-> "schema", requiredVars |-> requiredVars]
  /\ writers = [w \in Writers |-> NotCalling]
  /\ validation = NotCalling
  /\ NoClient

\* validateEnv(createEnvSchema(requiredVars), process.env)
DoCoreValidateEnv ==
  /\ last.op = "schema"
  /\ last' = [op |-> "coreValidateEnv", requiredVars |-> last.requiredVars,
              result |-> CoreValidateEnv(last.requiredVars, procEnv)]
  /\ UNCHANGED <<nodeEnv, procEnv, files, nUpdates, writers, validation, clientVars>>

\* coreStatusHandler(requiredVars, process.env)
DoCoreStatusHandler ==
  /\ last.op = "schema"
  /\ last' = [op |-> "coreStatusHandler", requiredVars |-> last.requiredVars,
              result |-> CoreStatusHandler(last.requiredVars, procEnv)]
  /\ UNCHANGED <<nodeEnv, procEnv, files, nUpdates, writers, validation, clientVars>>

\* the caller keeps the list for the next call
ReturnSchema ==
  /\ last.op \in {"coreValidateEnv", "coreStatusHandler"}
  /\ last' = [op |-> "schema", requiredVars |-> last.requiredVars]
  /\ UNCHANGED <<nodeEnv, procEnv, files, nUpdates, writers, validation, clientVars>>

NextSchema == DoCoreValidateEnv \/ DoCoreStatusHandler \/ ReturnSchema

SpecSchema == InitSchema /\ [][NextSchema]_vars

\* C21: validateEnv(createEnvSchema(required), env) has success false
\* exactly when a required name has no string value in env, and missingVars
\* holds exactly those names; so success = (missingVars is empty), and
\* coreStatusHandler returns the same.
SchemaReportsMissing ==
  last.op \in {"coreValidateEnv", "coreStatusHandler"} =>
    LET absent == {key \in Range(last.requiredVars) : ~Has(procEnv, key)} IN
    /\ last.result.success <=> absent = {}
    /\ Range(last.result.missingVars) = absent
    /\ last.result.success <=> last.result.missingVars = <<>>

----------------------------------------------------------------------------
(* The browser side, SpecClient: one EnvKitApi instance (the exported     *)
(* envKitApi) used by the EnvKitProvider's effect, by the form's submit   *)
(* and by application code, against the status and update handlers of a   *)
(* server working on the directory.  A call runs until it awaits; the     *)
(* clock advances between the steps.                                      *)

CACHE_TTL == 5000

\* the fallbackPath of the provider, and another route
FallbackPath == "/env-setup"
HomePath == "/"

\* the time that passes between two steps, in ms
Elapses == {2500}
\* the latest time explored
MaxNow == 5000
\* the status requests sent in one behaviour
MaxRequests == 2

\* the options the server's handlers were created with
ClientOptions ==
  Options(FALSE, [defined |-> TRUE, value |-> <<KeyA>>], NoEnvironments, "none")

\* a status request without the cookie
NoCookie == [kind |-> "none", vars |-> <<>>]

\* the body the form sends
ClientUpdate ==
  [kind |-> "object", targetEnv |-> NoTargetEnv,
   vars |-> <<[k |-> KeyA, v |-> <<"x">>]>>]

\* an EnvVarStatus; error tells whether it has the field error.  asOf (the
\* number of writes the server had done when it answered) and fetchedAt
\* (the time the fetch settled at) are not fields of the program's object:
\* they record where the result comes from.
EnvVarStatus(success, missingVars, error, asOf, fetchedAt) ==
  [success |-> success, missingVars |-> missingVars, error |-> error,
   asOf |-> asOf, fetchedAt |-> fetchedAt]

\* { success: false, missingVars: [], error }
FailedStatus(asOf, fetchedAt) == EnvVarStatus(FALSE, <<>>, TRUE, asOf, fetchedAt)

\* this.statusCache && (now - this.lastCheckTime < this.CACHE_TTL)
CacheIsValid(time) ==
  api.statusCache # Null /\ time - api.lastCheckTime < CACHE_TTL

\* the update the caller of checkStatus knows to have succeeded
UpdateSucceeded == update.pc = "returned" /\ update.result.success

\* the provider shows the fallback UI (the form, or its spinner)
ShowsFallbackUI(p) ==
  ~p.isReady /\ (p.isLoading \/ (p.pathname = FallbackPath /\ p.missingVars # <<>>))

\* checkEnvironmentVariables after `await envKitApi.checkStatus()`
ProviderTakes(p, result) ==
  LET isProduction == nodeEnv = "production"
      redirects == p.pathname # FallbackPath /\ ~isProduction
  IN  IF ~result.success
      THEN [p EXCEPT !.missingVars = result.missingVars,
                     !.pathname = IF redirects THEN FallbackPath ELSE @,
                     \* the effect depends on pathname: it runs again
                     !.effects = IF redirects THEN @ + 1 ELSE @,
                     !.isLoading = FALSE,
                     !.erred = result.error,
                     !.redirected = @ \/ (redirects /\ result.error)]
      ELSE [p EXCEPT !.isReady = TRUE, !.isLoading = FALSE, !.erred = FALSE]

\* the caller of call c takes its result
CallerTakes(p, by, result) ==
  IF by = "provider" THEN ProviderTakes(p, result) ELSE p

\* the slot of the next checkStatus call
FreeCall == CHOOSE c \in Calls : calls[c].pc = "idle"

\* checkStatus is called by `by`, the provider being p: it returns the
\* cached result, or sends the request and awaits fetch
CallCheckStatus(by, p) ==
  /\ \E c \in Calls : calls[c].pc = "idle"
  /\ IF CacheIsValid(now)
     THEN /\ last' = [op |-> "checkStatus", by |-> by, now |-> now,
                      afterUpdate |-> UpdateSucceeded, fromCache |-> TRUE,
                      result |-> api.statusCache]
          /\ provider' = CallerTakes(p, by, api.statusCache)
          /\ UNCHANGED <<calls, sent>>
     ELSE /\ Len(sent) < MaxRequests
          /\ calls' = [calls EXCEPT ![FreeCall] =
                         [pc |-> "fetching", by |-> by, now |-> now,
                          afterUpdate |-> UpdateSucceeded]]
          /\ provider' = p
          /\ sent' = Append(sent, now)
          /\ last' = last
  /\ UNCHANGED <<nodeEnv, procEnv, files, nUpdates, writers, validation>>
  /\ UNCHANGED <<now, api, update>>

\* call c stores result and returns it
CheckStatusReturns(c, result) ==
  /\ api' = [statusCache |-> result, lastCheckTime |-> calls[c].now]
  /\ calls' = [calls EXCEPT ![c] = NotCalling]
  /\ last' = [op |-> "checkStatus", by |-> calls[c].by, now |-> calls[c].now,
              afterUpdate |-> calls[c].afterUpdate, fromCache |-> FALSE,
              result |-> result]
  /\ provider' = CallerTakes(provider, calls[c].by, result)

InitClient ==
  /\ nodeEnv \in {"development", "production"}
  /\ procEnv = EmptyMap
  /\ \E present \in SUBSET {".env.local"} :
       files = [path \in FileNames |->
                  IF path \in present THEN FileOf(InitContent(path)) ELSE NoFile]
  /\ nUpdates = 0
  /\ last = NoCall
  /\ writers = [w \in Writers |-> NotCalling]
  /\ validation = NotCalling
  /\ now = 0
  /\ api = NewEnvKitApi
  /\ calls = [c \in Calls |-> NotCalling]
  /\ update = NotCalling
  \* the provider is mounted; under StrictMode its effect runs twice
  /\ \E pathname \in {HomePath, FallbackPath}, effects \in {1, 2} :
       provider = [pathname |-> pathname, isLoading |-> TRUE, isReady |-> FALSE,
                   missingVars |-> <<>>, isFirstRender |-> TRUE,
                   effects |-> effects, erred |-> FALSE, redirected |-> FALSE]
  /\ sent = <<>>

\* time passes
Tick ==
  /\ \E elapsed \in Elapses : now + elapsed <= MaxNow /\ now' = now + elapsed
  /\ UNCHANGED <<nodeEnv, procEnv, files, nUpdates, last, writers, validation>>
  /\ UNCHANGED <<api, calls, update, provider, sent>>

\* the effect of the provider runs: on the first render, or on the
\* fallback path, it calls checkEnvironmentVariables
EffectRuns ==
  /\ provider.effects > 0
  /\ LET ran == [provider EXCEPT !.effects = @ - 1, !.isFirstRender = FALSE] IN
     IF provider.isFirstRender \/ provider.pathname = FallbackPath
     THEN CallCheckStatus("provider", ran)
     ELSE /\ provider' = [provider EXCEPT !.effects = @ - 1]
          /\ UNCHANGED <<nodeEnv, procEnv, files, nUpdates, last, writers,
                         validation>>
          /\ UNCHANGED <<now, api, calls, update, sent>>

\* application code calls envKitApi.checkStatus()
AppChecksStatus ==
  /\ provider # Null
  /\ CallCheckStatus("app", provider)

\* the fetch of call c settles: it rejects, or the server has answered
FetchSettles(c) ==
  /\ calls[c].pc = "fetching"
  /\ \/ /\ CheckStatusReturns(c, FailedStatus(nUpdates, now))
     \/ /\ \E out \in {StatusHandler(files, nodeEnv, procEnv, ClientOptions,
                                     NoCookie, {})} :
             calls' = [calls EXCEPT ![c] =
                         [pc |-> "body", by |-> calls[c].by, now |-> calls[c].now,
                          afterUpdate |-> calls[c].afterUpdate,
                          response |-> out.response, asOf |-> nUpdates,
                          fetchedAt |-> now]]
        /\ UNCHANGED <<api, provider, last>>
  /\ UNCHANGED <<nodeEnv, procEnv, files, nUpdates, writers, validation>>
  /\ UNCHANGED <<now, update, sent>>

\* response.text() or response.json() of call c settles
BodySettles(c) ==
  /\ calls[c].pc = "body"
  /\ LET response == calls[c].response
         failed == FailedStatus(calls[c].asOf, calls[c].fetchedAt)
     IN  IF response.status # 200
         THEN CheckStatusReturns(c, failed)
         ELSE \/ CheckStatusReturns(c, failed)
              \/ CheckStatusReturns(
                   c, EnvVarStatus(response.success, response.missingVars, FALSE,
                                   calls[c].asOf, calls[c].fetchedAt))
  /\ UNCHANGED <<nodeEnv, procEnv, files, nUpdates, writers, validation>>
  /\ UNCHANGED <<now, update, sent>>

\* envKitApi.updateVariables(variables) is called and awaits fetch
CallUpdateVariables ==
  /\ update.pc = "idle"
  /\ update' = [pc |-> "posting"]
  /\ UNCHANGED <<nodeEnv, procEnv, files, nUpdates, last, writers, validation>>
  /\ UNCHANGED <<now, api, calls, provider, sent>>

\* the fetch of updateVariables settles and the call returns: the request
\* was lost, or the update handler has run and answered
UpdateSettles ==
  /\ update.pc = "posting"
  /\ \/ /\ update' = [pc |-> "returned", result |-> [success |-> FALSE],
                        asOf |-> nUpdates]
        /\ UNCHANGED <<files, nUpdates>>
     \/ \E out \in {UpdateHandler(files, nodeEnv, ClientOptions, ClientUpdate,
                                  FALSE, FALSE)} :
          /\ files' = out.fs
          /\ nUpdates' = IF out.effects.wrote THEN nUpdates + 1 ELSE nUpdates
          /\ update' = [pc |-> "returned",
                        result |-> [success |-> out.response.status = 200
                                                /\ out.response.success],
                        \* the number of writes after this update
                        asOf |-> nUpdates']
  /\ UNCHANGED <<nodeEnv, procEnv, last, writers, validation>>
  /\ UNCHANGED <<now, api, calls, provider, sent>>

\* handleComplete: the form calls onSubmit after a successful update
HandleComplete ==
  /\ UpdateSucceeded
  /\ ShowsFallbackUI(provider)
  /\ provider' = [provider EXCEPT
                    !.isReady = TRUE,
                    !.pathname = HomePath,
                    !.effects = IF provider.pathname = FallbackPath
                                THEN @ + 1 ELSE @]
  /\ UNCHANGED <<nodeEnv, procEnv, files, nUpdates, last, writers, validation>>
  /\ UNCHANGED <<now, api, calls, update, sent>>

NextClient ==
  \/ Tick
  \/ EffectRuns
  \/ AppChecksStatus
  \/ \E c \in Calls : FetchSettles(c)
  \/ \E c \in Calls : BodySettles(c)
  \/ CallUpdateVariables
  \/ UpdateSettles
  \/ HandleComplete

SpecClient == InitClient /\ [][NextClient]_vars

\* C27: for one EnvKitApi instance at most one status request is sent
\* within any window of CACHE_TTL, also when checkStatus calls overlap.
StatusRequestDeduplication ==
  \A i \in 1..Len(sent), j \in 1..Len(sent) :
    i < j => sent[j] - sent[i] >= CACHE_TTL

\* C28: a checkStatus call that starts after updateVariables returned
\* success returns a status the server computed after that update, and
\* every result served from the cache was fetched less than CACHE_TTL
\* before the call.
StatusFreshness ==
  last.op = "checkStatus" =>
    /\ last.afterUpdate => last.result.asOf >= update.asOf
    /\ last.fromCache => last.now - last.result.fetchedAt < CACHE_TTL

\* C29: when the status check of the provider has ended in an error the
\* provider is ready, has not redirected to the fallback path and renders
\* its children; it is never on the fallback path, not ready, with no form.
ProviderNotBlockedByError ==
  provider.erred =>
    /\ provider.isReady
    /\ ~provider.redirected
    /\ ~ShowsFallbackUI(provider)

====
